---- MODULE Spec2Model ----
(***************************************************************************)
(* Model of the agentic procurement assistant:                             *)
(*   - AgenticProcurementAgent.process_query, the ReAct loop               *)
(*     (src/src/ai_agent_agentic.py);                                      *)
(*   - LangChainQueryTranslator.translate / validate_query                 *)
(*     (src/src/query_translator_langchain.py).                            *)
(*                                                                         *)
(* Python strings are modelled as records [kind |-> "str", text |-> toks]  *)
(* where toks is a sequence of tokens; JSON values are tagged records      *)
(* (JDict, JList, JStr, JInt, JNull); a JSON document held in a string is  *)
(* [json |-> value].                                                       *)
(***************************************************************************)
EXTENDS Integers, Sequences, FiniteSets, TLC

VARIABLES
    pc,                   \* position of process_query
    user_question,        \* argument of process_query
    llm_offset,           \* the language model's behaviour: which tool it asks for first
    llm_batches,          \* the language model's behaviour: how many invocations a turn may request
    enable_web_search,    \* self.enable_web_search
    messages,             \* the conversation of the run
    iterations,
    tool_calls_made,
    final_response,
    total_input_tokens,
    total_output_tokens,
    ai_msg,               \* the model message being acted on
    tool_idx,             \* position of the for loop over ai_msg.tool_calls
    tool_output,          \* output of the tool dispatched last
    llm_invocations,      \* number of calls of llm_with_tools.invoke
    dispatched,           \* call ids of the invocations the tools received, in order
    exception,            \* the exception the handler of process_query caught
    store_calls,          \* operations issued to the document store
    web_searches,         \* queries sent to the web search provider
    mongo,                \* self.mongo: the document store behind the agent
    conversation_history, \* self.conversation_history
    result,               \* the value process_query returned
    clock,                \* the readings of datetime.now() so far
    tr_response,          \* translate: the response of the translator's model
    tr_outcome,           \* translate: what the call returned or raised
    tr_invocations,       \* translate: number of calls of self.llm.invoke
    ex_store,             \* _tool_execute_query: the document store behind self.mongo
    ex_query_json,        \* _tool_execute_query: its argument
    ex_outcome,           \* _tool_execute_query: what the call returned or raised
    sr_trace,             \* _serialize_results: a record set and its successive results
    sc_outcome,           \* get_collection_schema: what the call returned or raised
    threads,              \* overlapping process_query calls inside _add_to_history
    client,               \* a MongoDBClient and the calls made on it
    chat                  \* the chat page: its messages, feedback and interaction log

vars == <<pc, user_question, llm_offset, llm_batches, enable_web_search, messages, iterations, tool_calls_made,
          final_response, total_input_tokens, total_output_tokens, ai_msg,
          tool_idx, tool_output, llm_invocations, dispatched, exception, store_calls,
          web_searches, mongo, conversation_history, result, clock, tr_response, tr_outcome,
          tr_invocations, ex_store, ex_query_json, ex_outcome, sr_trace, sc_outcome,
          threads, client, chat>>

loop_vars == <<pc, user_question, llm_offset, llm_batches, enable_web_search, messages, iterations, tool_calls_made,
               final_response, total_input_tokens, total_output_tokens, ai_msg,
               tool_idx, tool_output, llm_invocations, dispatched, exception, store_calls,
               web_searches, mongo, conversation_history, result, clock>>

tr_vars == <<tr_response, tr_outcome, tr_invocations>>

ex_vars == <<ex_store, ex_query_json, ex_outcome>>

sr_vars == <<sr_trace>>

sc_vars == <<sc_outcome>>

cc_vars == <<threads>>

mc_vars == <<client>>

ch_vars == <<chat>>

\* the variables process_query leaves alone
side_vars == <<tr_vars, ex_vars, sr_vars, sc_vars, cc_vars, mc_vars, ch_vars>>

None == [t |-> "None"]

(***************************************************************************)
(* Bounds and program constants                                            *)
(***************************************************************************)
\* most tool invocations one model response requests
MaxBatch == 2

\* longest aggregation pipeline the translator's model produces
MaxPipeline == 2

\* most records in a record set given to _serialize_results
MaxRecords == 2

\* most successive calls of _serialize_results on one record set
MaxPasses == 2

\* most successful calls of process_query on one agent
MaxCalls == 11

max_iterations == 8

MAX_QUERY_RESULTS == 100

QUERY_TIMEOUT_SECONDS == 30

HistoryLimit == 10

(***************************************************************************)
(* Python strings and JSON values                                          *)
(***************************************************************************)
Str(toks) == [kind |-> "str", text |-> toks]

JDict(m) == [t |-> "dict", m |-> m]

JList(s) == [t |-> "list", items |-> s]

JStr(s) == [t |-> "str", s |-> s]

JInt(n) == [t |-> "int", n |-> n]

JBool(b) == [t |-> "bool", b |-> b]

EmptyMap == [k \in {} |-> None]

IsDict(v) == v.t = "dict"

IsList(v) == v.t = "list"

HasKey(v, k) == k \in DOMAIN v.m

\* dict.get(k, default)
Get(v, k, default) == IF k \in DOMAIN v.m THEN v.m[k] ELSE default

(***************************************************************************)
(* LangChainQueryTranslator                                                *)
(***************************************************************************)
Returned(v) == [kind |-> "returned", value |-> v]

Raised(e) == [kind |-> "raised", error |-> e]

destructive_stages == {"$out", "$merge"}

\* the loop over the keys of one stage, lines 379-382: TRUE when a key is destructive
StageIsDestructive(stage) == \E stage_name \in DOMAIN stage.m : stage_name \in destructive_stages

\* only the first stage is looked at
StagesAccepted_FirstOnly(pipeline) ==
    \A i \in {j \in 1..Len(pipeline.items) : j = 1} :
        /\ IsDict(pipeline.items[i])
        /\ ~StageIsDestructive(pipeline.items[i])

\* the loop over the stages, lines 375-382: TRUE when every stage passes
StagesAccepted(pipeline) ==
    \A i \in 1..Len(pipeline.items) :
        /\ IsDict(pipeline.items[i])
        /\ ~StageIsDestructive(pipeline.items[i])

\* an empty pipeline is let through
validate_query_AcceptsEmptyPipeline(query_type, query) ==
    IF ~IsDict(query) THEN [ok |-> FALSE, query |-> query]
    ELSE IF query_type = JStr("find") THEN
        IF ~HasKey(query, "filter") THEN [ok |-> FALSE, query |-> query]
        ELSE IF ~IsDict(query.m["filter"]) THEN [ok |-> FALSE, query |-> query]
        ELSE IF ~HasKey(query, "limit")
             THEN [ok |-> TRUE,
                   query |-> JDict(query.m @@ ("limit" :> JInt(MAX_QUERY_RESULTS)))]
             ELSE [ok |-> TRUE, query |-> query]
    ELSE IF query_type = JStr("aggregate") THEN
        IF ~HasKey(query, "pipeline") THEN [ok |-> FALSE, query |-> query]
        ELSE IF ~IsList(query.m["pipeline"]) THEN [ok |-> FALSE, query |-> query]
        ELSE [ok |-> StagesAccepted(query.m["pipeline"]), query |-> query]
    ELSE [ok |-> FALSE, query |-> query]

\* the limit is set whether or not the query carries one
validate_query_OverwritesLimit(query_type, query) ==
    IF ~IsDict(query) THEN [ok |-> FALSE, query |-> query]
    ELSE IF query_type = JStr("find") THEN
        IF ~HasKey(query, "filter") THEN [ok |-> FALSE, query |-> query]
        ELSE IF ~IsDict(query.m["filter"]) THEN [ok |-> FALSE, query |-> query]
        ELSE [ok |-> TRUE,
              query |-> JDict(("limit" :> JInt(MAX_QUERY_RESULTS)) @@ query.m)]
    ELSE IF query_type = JStr("aggregate") THEN
        IF ~HasKey(query, "pipeline") THEN [ok |-> FALSE, query |-> query]
        ELSE IF ~IsList(query.m["pipeline"]) THEN [ok |-> FALSE, query |-> query]
        ELSE IF Len(query.m["pipeline"].items) = 0 THEN [ok |-> FALSE, query |-> query]
        ELSE [ok |-> StagesAccepted(query.m["pipeline"]), query |-> query]
    ELSE [ok |-> FALSE, query |-> query]

\* validate_query: the accepted flag and the query as the call leaves it
validate_query(query_type, query) ==
    IF ~IsDict(query) THEN [ok |-> FALSE, query |-> query]
    ELSE IF query_type = JStr("find") THEN
        IF ~HasKey(query, "filter") THEN [ok |-> FALSE, query |-> query]
        ELSE IF ~IsDict(query.m["filter"]) THEN [ok |-> FALSE, query |-> query]
        ELSE IF ~HasKey(query, "limit")
             THEN [ok |-> TRUE,
                   query |-> JDict(query.m @@ ("limit" :> JInt(MAX_QUERY_RESULTS)))]
             ELSE [ok |-> TRUE, query |-> query]
    ELSE IF query_type = JStr("aggregate") THEN
        IF ~HasKey(query, "pipeline") THEN [ok |-> FALSE, query |-> query]
        ELSE IF ~IsList(query.m["pipeline"]) THEN [ok |-> FALSE, query |-> query]
        ELSE IF Len(query.m["pipeline"].items) = 0 THEN [ok |-> FALSE, query |-> query]
        ELSE [ok |-> StagesAccepted(query.m["pipeline"]), query |-> query]
    ELSE [ok |-> FALSE, query |-> query]

\* _validate_response_format on a parsed object
validate_response_format(response) ==
    /\ HasKey(response, "query_type")
    /\ HasKey(response, "query")
    /\ response.m["query_type"] \in {JStr("find"), JStr("aggregate")}

\* lines 236-281: the text of the response with a markdown fence removed
ExtractResult(llm_response) == llm_response.body

\* translate from the model's response on (lines 236-321)
TranslateResponse(llm_response) ==
    LET text == ExtractResult(llm_response) IN
    IF "json" \notin DOMAIN text
    THEN Raised("LLM did not return valid JSON")
    ELSE LET parsed == text.json IN
         IF ~IsDict(parsed) THEN Raised("Invalid response format")
         ELSE IF ~validate_response_format(parsed) THEN Raised("Invalid response format")
         ELSE LET v == validate_query(parsed.m["query_type"], parsed.m["query"]) IN
              IF ~v.ok THEN Raised("Generated query failed validation")
              ELSE Returned(JDict(("query_type" :> parsed.m["query_type"])
                                  @@ ("query" :> v.query)
                                  @@ ("explanation" :> Get(parsed, "explanation", JStr("")))))

\* translate: one model invocation (line 231), which may throw, then the checks
translate(llm_response) ==
    IF llm_response.throws THEN Raised("model invocation failed")
    ELSE TranslateResponse(llm_response)

(***************************************************************************)
(* What the translator's model may answer                                  *)
(***************************************************************************)
\* sequences over S of length 0..n
SeqsUpTo(S, n) == UNION {[1..k -> S] : k \in 0..n}

StageValue == JInt(1)

Stage(keys) == JDict([k \in keys |-> StageValue])

Stages ==
    {Stage({"$match"}), Stage({"$limit"}), Stage({"$count"}),
     Stage({"$out"}), Stage({"$merge"}), Stage({"$match", "$out"}),
     JStr("$out")}

Pipelines == {JList(p) : p \in SeqsUpTo(Stages, MaxPipeline)}

Filter == JDict("department_name" :> JStr("Transportation"))

FindQueries ==
    {JDict("filter" :> Filter),
     JDict(("filter" :> Filter) @@ ("limit" :> JInt(5))),
     JDict(("filter" :> Filter) @@ ("limit" :> JInt(500))),
     JDict("filter" :> JStr("all")),
     JDict("limit" :> JInt(5))}

AggregateQueries ==
    {JDict("pipeline" :> p) : p \in Pipelines}
    \cup {JDict("pipeline" :> Stage({"$out"})), JDict("stages" :> JList(<<Stage({"$out"})>>))}

Queries == FindQueries \cup AggregateQueries \cup {JList(<<Stage({"$out"})>>)}

QueryTypes == {JStr("find"), JStr("aggregate"), JStr("delete")}

ParsedResponses ==
    {JDict(("query_type" :> qt) @@ ("query" :> q) @@ ("explanation" :> JStr("because")))
        : qt \in QueryTypes, q \in Queries}
    \cup {JDict(("query_type" :> JStr("aggregate")) @@ ("query" :> q)) : q \in AggregateQueries}
    \cup {JDict("query" :> q) : q \in AggregateQueries}
    \cup {JDict("query_type" :> JStr("aggregate")), JList(<<Stage({"$out"})>>)}

TrResponses ==
    {[throws |-> FALSE, body |-> [json |-> p]] : p \in ParsedResponses}
    \cup {[throws |-> FALSE, body |-> [text |-> "Here is your query"]],
          [throws |-> TRUE, body |-> [text |-> ""]]}

(***************************************************************************)
(* The tools of AgenticProcurementAgent                                    *)
(***************************************************************************)
Min(a, b) == IF a < b THEN a ELSE b

\* json.dumps(value): the string that holds the document
Dumps(value) == [json |-> value]

\* values of the store that JSON does not have: bson.ObjectId, shown by its
\* hexadecimal digits, and datetime, shown by its ISO-8601 text
JOid(hex) == [t |-> "oid", s |-> hex]

JDate(iso) == [t |-> "date", s |-> iso]

RECURSIVE JsonSerializable(_)
\* json.dumps accepts the value: no ObjectId and no datetime anywhere in it
JsonSerializable(v) ==
    IF v.t \in {"oid", "date"} THEN FALSE
    ELSE IF v.t = "dict" THEN \A k \in DOMAIN v.m : JsonSerializable(v.m[k])
    ELSE IF v.t = "list" THEN \A i \in 1..Len(v.items) : JsonSerializable(v.items[i])
    ELSE TRUE

\* an ObjectId becomes its generation time instead of its text
SerializeValue_IdAsTime(value) ==
    IF value.t = "oid" THEN JDate(value.s)
    ELSE IF value.t = "date" THEN JStr(value.s)
    ELSE value

\* lines 371-376: one value of a record, str(value) for an ObjectId and
\* value.isoformat() for a datetime
SerializeValue(value) ==
    IF value.t = "oid" THEN JStr(value.s)
    ELSE IF value.t = "date" THEN JStr(value.s)
    ELSE value

\* the record loses its _id
SerializeDoc_DropsId(doc) ==
    JDict([key \in DOMAIN doc.m \ {"_id"} |-> SerializeValue(doc.m[key])])

\* lines 369-377: one record, key by key
SerializeDoc(doc) ==
    JDict([key \in DOMAIN doc.m |-> SerializeValue(doc.m[key])])

\* _serialize_results
serialize_results(results) ==
    [i \in 1..Len(results) |-> SerializeDoc(results[i])]

\* record sets of the collection: aggregation output keyed by _id
StoreDocs ==
    <<JDict(("_id" :> JStr("Transportation")) @@ ("total" :> JInt(99))),
      JDict(("_id" :> JStr("Education")) @@ ("total" :> JInt(45)))>>

\* purchase orders with an ObjectId and a date
NativeDocs ==
    <<JDict(("_id" :> JOid("65a1")) @@ ("creation_date" :> JDate("2014-01-01T00:00:00"))
            @@ ("total_price" :> JInt(99))),
      JDict(("_id" :> JOid("65a2")) @@ ("creation_date" :> JDate("2014-06-30T00:00:00"))
            @@ ("supplier" :> JDict("name" :> JStr("Acme"))))>>

\* aggregation output whose grouping key is a mapping that holds a date
NestedDocs ==
    <<JDict(("_id" :> JDict(("department" :> JStr("Education"))
                            @@ ("day" :> JDate("2014-01-01T00:00:00"))))
            @@ ("total" :> JInt(45)))>>

\* more records than MAX_QUERY_RESULTS
ManyDocs == [i \in 1..(MAX_QUERY_RESULTS + 1) |-> JDict("_id" :> JInt(i))]

DocSets == {<<>>, StoreDocs, NativeDocs, NestedDocs, ManyDocs}

\* the stores behind self.mongo: connected or not, answering or failing
Stores == {[connected |-> c, fails |-> f, docs |-> d] : c \in BOOLEAN, f \in BOOLEAN, d \in DocSets}

\* the store of the agent's runs: connected, and with no operation about to fail
TheStore == [connected |-> TRUE, outage |-> 0, docs |-> StoreDocs]

\* the store as one call of a tool meets it
StoreView(m) == [connected |-> m.connected, fails |-> m.outage > 0, docs |-> m.docs]

\* the store after the operations a tool issued: an outage lasts for a number
\* of operations
StoreAfter(m, calls) ==
    [m EXCEPT !.outage = IF @ > Len(calls) THEN @ - Len(calls) ELSE 0]

StoreRaised == [ok |-> FALSE, docs |-> <<>>]

\* the store's answer to find(filter).limit(limit); a limit of 0 is no limit
StoreFind(store, filter, limit) ==
    IF store.fails \/ ~IsDict(filter) \/ limit.t # "int" THEN StoreRaised
    ELSE LET n == IF limit.n < 0 THEN 0 - limit.n ELSE limit.n IN
         [ok |-> TRUE,
          docs |-> IF n = 0 THEN store.docs ELSE SubSeq(store.docs, 1, Min(n, Len(store.docs)))]

RECURSIVE RunStages(_, _, _)
\* the stages from the i-th on, applied to docs: $limit cuts, $count counts,
\* $out and $merge write and must come last, any other stage lets all pass
RunStages(docs, stages, i) ==
    IF i > Len(stages) THEN [ok |-> TRUE, docs |-> docs]
    ELSE LET stage == stages[i] IN
         IF ~IsDict(stage) THEN StoreRaised
         ELSE IF Cardinality(DOMAIN stage.m) # 1 THEN StoreRaised
         ELSE IF HasKey(stage, "$limit")
         THEN IF stage.m["$limit"].t = "int" /\ stage.m["$limit"].n > 0
              THEN RunStages(SubSeq(docs, 1, Min(stage.m["$limit"].n, Len(docs))), stages, i + 1)
              ELSE StoreRaised
         ELSE IF HasKey(stage, "$count")
         THEN RunStages(<<JDict("count" :> JInt(Len(docs)))>>, stages, i + 1)
         ELSE IF StageIsDestructive(stage)
         THEN IF i = Len(stages) THEN [ok |-> TRUE, docs |-> <<>>] ELSE StoreRaised
         ELSE RunStages(docs, stages, i + 1)

\* the store's answer to aggregate(pipeline): it refuses what is not a list
StoreAggregate(store, pipeline) ==
    IF store.fails \/ ~IsList(pipeline) THEN StoreRaised
    ELSE RunStages(store.docs, pipeline.items, 1)

ExecError(e) ==
    Dumps(JDict(("success" :> JBool(FALSE)) @@ ("error" :> JStr(e))
                @@ ("results" :> JList(<<>>)) @@ ("count" :> JInt(0))))

ExecSuccess(docs) ==
    Dumps(JDict(("success" :> JBool(TRUE)) @@ ("results" :> JList(docs))
                @@ ("count" :> JInt(Len(docs)))))

\* "$x" in stage, for a stage that is a mapping or a string
InStage(name, stage) ==
    IF IsDict(stage) THEN name \in DOMAIN stage.m
    ELSE stage.t = "str" /\ stage.s = name

\* the default limit is appended although a $count stage is there
WithDefaultLimit_IgnoresCount(pipeline) ==
    LET has_limit == \E i \in 1..Len(pipeline) : InStage("$limit", pipeline[i])
    IN IF ~has_limit
       THEN Append(pipeline, JDict("$limit" :> JInt(MAX_QUERY_RESULTS)))
       ELSE pipeline

\* lines 326-329: the pipeline with the default limit appended when it has none
WithDefaultLimit(pipeline) ==
    LET has_limit == \E i \in 1..Len(pipeline) : InStage("$limit", pipeline[i])
        has_count == \E i \in 1..Len(pipeline) : InStage("$count", pipeline[i])
    IN IF ~has_limit /\ ~has_count
       THEN Append(pipeline, JDict("$limit" :> JInt(MAX_QUERY_RESULTS)))
       ELSE pipeline

\* whatever is not a mapping is wrapped, for either kind of query
WrapQuery_WrapsAnything(query_type, query) ==
    IF IsDict(query) THEN query ELSE JDict("pipeline" :> query)

\* a bare pipeline is left as it is
WrapQuery_NoWrap(query_type, query) == query

\* lines 299-302: a bare pipeline given as the query is wrapped
WrapQuery(query_type, query) ==
    IF query_type = JStr("aggregate") /\ IsList(query)
    THEN JDict("pipeline" :> query)
    ELSE query

\* how the try block of _tool_execute_query ends: the string it returns or
\* the exception it raises, the operations issued to the store and the
\* records list(cursor) gave
ExecReturned(output, calls, results) ==
    [raised |-> None, output |-> output, calls |-> calls, results |-> results]

ExecRaised(e, calls, results) ==
    [raised |-> JStr(e), output |-> None, calls |-> calls, results |-> results]

\* lines 340-347: the records are normalised and written as JSON
ExecResults(fetched, calls) ==
    LET results == serialize_results(fetched) IN
    IF \A i \in 1..Len(results) : JsonSerializable(results[i])
    THEN ExecReturned(ExecSuccess(results), calls, JList(fetched))
    ELSE ExecRaised("Object is not JSON serializable", calls, JList(fetched))

\* lines 270-347: the try block
ExecuteTry(store, query_json) ==
    IF "json" \notin DOMAIN query_json
    THEN ExecRaised("Expecting value", <<>>, None)
    ELSE LET query_data == query_json.json IN
    IF IsList(query_data)
    THEN ExecReturned(ExecError("Query translation returned a list instead of dict"),
                      <<>>, None)
    ELSE IF ~IsDict(query_data) /\ query_data.t # "str"
    THEN ExecRaised("argument is not iterable", <<>>, None)
    ELSE IF query_data.t = "str"
    THEN ExecReturned(ExecError("Missing 'query_type' in query data"), <<>>, None)
    ELSE IF ~HasKey(query_data, "query_type")
    THEN ExecReturned(ExecError("Missing 'query_type' in query data"), <<>>, None)
    ELSE IF ~HasKey(query_data, "query")
    THEN ExecRaised("'query'", <<>>, None)
    ELSE LET query_type == query_data.m["query_type"]
             query == WrapQuery(query_type, query_data.m["query"])
         IN
    IF ~IsDict(query)
    THEN ExecReturned(ExecError("Invalid query structure"), <<>>, None)
    ELSE IF ~store.connected
    THEN ExecRaised("Not connected to MongoDB. Call connect() first.", <<>>, None)
    ELSE IF query_type = JStr("find")
    THEN LET filter_dict == Get(query, "filter", JDict(EmptyMap))
             limit == Get(query, "limit", JInt(MAX_QUERY_RESULTS))
             call == [op |-> "find", filter |-> filter_dict, limit |-> limit]
             r == StoreFind(store, filter_dict, limit)
         IN IF r.ok THEN ExecResults(r.docs, <<call>>)
            ELSE ExecRaised("store error", <<call>>, None)
    ELSE IF query_type = JStr("aggregate")
    THEN LET given == Get(query, "pipeline", JList(<<>>)) IN
         IF ~IsList(given) /\ ~IsDict(given)
         THEN ExecRaised("object has no attribute 'append'", <<>>, None)
         ELSE IF IsDict(given) /\ DOMAIN given.m \cap {"$limit", "$count"} = {}
         THEN ExecRaised("'dict' object has no attribute 'append'", <<>>, None)
         ELSE LET pipeline == IF IsList(given) THEN JList(WithDefaultLimit(given.items))
                              ELSE given
                  call == [op |-> "aggregate", pipeline |-> pipeline,
                           maxTimeMS |-> QUERY_TIMEOUT_SECONDS * 1000]
                  r == StoreAggregate(store, pipeline)
              IN IF r.ok THEN ExecResults(r.docs, <<call>>)
                 ELSE ExecRaised("store error", <<call>>, None)
    ELSE ExecRaised("Unsupported query type", <<>>, None)

\* the exception leaves the function
tool_execute_query_Uncaught(store, query_json) == ExecuteTry(store, query_json)

\* _tool_execute_query: the handler of lines 349-356 turns an exception into
\* an error result
tool_execute_query(store, query_json) ==
    LET r == ExecuteTry(store, query_json) IN
    IF r.raised # None
    THEN ExecReturned(ExecError(r.raised.s), r.calls, r.results)
    ELSE r

\* the answer of the translator's model to a question
TranslatorModel(q) ==
    IF q = Str(<<"orders">>)
    THEN [throws |-> FALSE,
          body |-> [json |-> JDict(("query_type" :> JStr("find"))
                                   @@ ("query" :> JDict("filter" :> Filter))
                                   @@ ("explanation" :> JStr("because")))]]
    ELSE IF q = Str(<<"export">>)
    THEN [throws |-> FALSE,
          body |-> [json |-> JDict(("query_type" :> JStr("aggregate"))
                                   @@ ("query" :> JDict("pipeline" :>
                                          JList(<<Stage({"$match"}), Stage({"$out"})>>))))]]
    ELSE [throws |-> FALSE, body |-> [text |-> "Here is your query"]]

\* the error message is left out of the observation
tool_translate_query_NoMessage(q) ==
    LET r == translate(TranslatorModel(q)) IN
    IF r.kind = "returned" THEN Dumps(r.value)
    ELSE Dumps(JDict("error" :> JStr("")))

\* _tool_translate_query
tool_translate_query(q) ==
    LET r == translate(TranslatorModel(q)) IN
    IF r.kind = "returned" THEN Dumps(r.value)
    ELSE Dumps(JDict("error" :> JStr(r.error)))

\* _tool_search_web
tool_search_web(query, max_results) ==
    Dumps(JDict(("success" :> JBool(TRUE)) @@ ("query" :> query)
                @@ ("results" :> JStr("snippet, title, link")) @@ ("count" :> max_results)))

\* a set of strings as a sequence
RECURSIVE KeyList(_)
KeyList(keys) ==
    IF keys = {} THEN <<>>
    ELSE LET k == CHOOSE x \in keys : TRUE IN <<k>> \o KeyList(keys \ {k})

\* lines 179-183: the fields the sample document of the digest keeps
SampleFields == {"department_name", "supplier_name", "item_name", "total_price",
                 "fiscal_year", "fiscal_quarter", "creation_date", "quantity"}

\* lines 166-195: the try block of get_collection_schema; json.dumps is given
\* default=str, so native values do not make it raise
SchemaTry(store) ==
    IF ~store.connected
    THEN ExecRaised("Not connected to MongoDB. Call connect() first.", <<>>, None)
    ELSE IF store.fails
    THEN ExecRaised("store error", <<[op |-> "find_one"]>>, None)
    ELSE IF Len(store.docs) = 0 \/ DOMAIN store.docs[1].m = {}
    THEN ExecReturned(Str(<<"Collection is empty.">>), <<[op |-> "find_one"]>>, None)
    ELSE LET sample == store.docs[1].m IN
         ExecReturned(Str(<<"Collection Fields: ">> \o KeyList(DOMAIN sample \ {"_id"})
                          \o <<"Sample Document:">>
                          \o KeyList(DOMAIN sample \cap SampleFields)
                          \o <<"Key Field Notes:">>),
                      <<[op |-> "find_one"]>>, None)

\* the exception leaves the tool
get_collection_schema_Uncaught(store) == SchemaTry(store)

\* the get_collection_schema tool: the handler of lines 196-198 turns an
\* exception into an error text
get_collection_schema(store) ==
    LET r == SchemaTry(store) IN
    IF r.raised # None
    THEN ExecReturned(Str(<<"Error retrieving schema: ", r.raised.s>>), r.calls, None)
    ELSE r

(***************************************************************************)
(* What the agent's model may answer                                       *)
(***************************************************************************)
KnownTools == <<"get_collection_schema", "translate_query", "execute_mongodb_query", "search_web">>

\* the names the model asks for, in turn; the last is not a tool of the agent
ToolCycle == KnownTools \o <<"format_response">>

Questions == {Str(<<"orders">>), Str(<<"export">>)}

\* where in ToolCycle the model starts
Offsets == {0, 3}

\* against a store that fails, the model that goes on to translate and execute
\* a second time
RetryOffsets == {0, 1}

\* the behaviours of the model the runs against a store are examined for
ModelOffsets(store) ==
    IF store.connected /\ store.outage = 0 THEN Offsets ELSE RetryOffsets

\* the query_json strings the model passes to execute_mongodb_query
ExecPayloads ==
    <<Dumps(JDict(("query_type" :> JStr("find")) @@ ("query" :> JDict("filter" :> Filter)))),
      Dumps(JDict(("query_type" :> JStr("aggregate"))
                  @@ ("query" :> JList(<<Stage({"$limit"}), Stage({"$out"})>>)))),
      [text |-> "run it"],
      Dumps(JDict(("query_type" :> JStr("aggregate"))
                  @@ ("query" :> JDict("pipeline" :> JList(<<Stage({"$count"})>>)))))>>

\* the arguments of the id-th tool invocation of a run
ArgsFor(name, id, q) ==
    IF id % 4 = 0 THEN EmptyMap
    ELSE IF name = "translate_query" THEN ("user_question" :> q)
    ELSE IF name = "execute_mongodb_query"
         THEN ("query_json" :> ExecPayloads[((id \div 5) % Len(ExecPayloads)) + 1])
    ELSE IF name = "search_web"
         THEN IF id % 2 = 0 THEN ("query" :> JStr("inflation")) @@ ("max_results" :> JInt(3))
              ELSE ("query" :> JStr("inflation"))
    ELSE EmptyMap

\* the n tool invocations the model requests after `issued` earlier ones
ToolCalls(offset, issued, n, q) ==
    [k \in 1..n |->
        LET id == issued + k
            name == ToolCycle[((offset + id - 1) % Len(ToolCycle)) + 1]
        IN [name |-> name, args |-> ArgsFor(name, id, q), id |-> id]]

\* the token accounting a response carries: OpenAI shape, Gemini shape, or none
ResponseMetadata(iteration) ==
    IF iteration % 3 = 1
    THEN ("token_usage" :> (("prompt_tokens" :> 3) @@ ("completion_tokens" :> 1)))
    ELSE IF iteration % 3 = 2
    THEN ("usage_metadata" :> (("prompt_token_count" :> 2) @@ ("candidates_token_count" :> 2)))
    ELSE EmptyMap

\* the contents of a final answer: a plain string, or a list of fragments
AnswerContents ==
    {Str(<<"The", "answer">>),
     [kind |-> "list", items |-> <<[kind |-> "dict_text", text |-> <<"The">>],
                                   [kind |-> "other", text |-> <<>>],
                                   [kind |-> "str", text |-> <<"answer">>]>>],
     [kind |-> "list", items |-> <<[kind |-> "other", text |-> <<>>]>>]}

ModelErrors == {"model unavailable"}

RECURSIVE NumRequested(_)
\* the number of tool invocations the model messages of a conversation request
NumRequested(msgs) ==
    IF Len(msgs) = 0 THEN 0
    ELSE LET m == msgs[Len(msgs)] IN
         (IF m.type = "ai" THEN Len(m.tool_calls) ELSE 0)
         + NumRequested(SubSeq(msgs, 1, Len(msgs) - 1))

(***************************************************************************)
(* AgenticProcurementAgent.process_query                                   *)
(***************************************************************************)
SystemMessage(content) == [type |-> "system", content |-> content]

HumanMessage(content) == [type |-> "human", content |-> content]

AIMessage(content, tool_calls, md) ==
    [type |-> "ai", content |-> content, tool_calls |-> tool_calls, response_metadata |-> md]

ToolMessage(content, tool_call_id) ==
    [type |-> "tool", content |-> content, tool_call_id |-> tool_call_id]

\* only the first of the two shapes is counted
TokensOf_FirstShapeOnly(md) ==
    IF "token_usage" \in DOMAIN md
    THEN [input |-> IF "prompt_tokens" \in DOMAIN md["token_usage"]
                    THEN md["token_usage"]["prompt_tokens"] ELSE 0,
          output |-> IF "completion_tokens" \in DOMAIN md["token_usage"]
                     THEN md["token_usage"]["completion_tokens"] ELSE 0]
    ELSE [input |-> 0, output |-> 0]

\* lines 513-529: the input and output tokens one response adds
TokensOf(md) ==
    IF "token_usage" \in DOMAIN md
    THEN [input |-> IF "prompt_tokens" \in DOMAIN md["token_usage"]
                    THEN md["token_usage"]["prompt_tokens"] ELSE 0,
          output |-> IF "completion_tokens" \in DOMAIN md["token_usage"]
                     THEN md["token_usage"]["completion_tokens"] ELSE 0]
    ELSE IF "usage_metadata" \in DOMAIN md
    THEN [input |-> IF "prompt_token_count" \in DOMAIN md["usage_metadata"]
                    THEN md["usage_metadata"]["prompt_token_count"] ELSE 0,
          output |-> IF "candidates_token_count" \in DOMAIN md["usage_metadata"]
                     THEN md["usage_metadata"]["candidates_token_count"] ELSE 0]
    ELSE [input |-> 0, output |-> 0]

RECURSIVE JoinParts(_)
\* ''.join(text_parts) over the fragments that carry text
JoinParts(items) ==
    IF Len(items) = 0 THEN <<>>
    ELSE (IF items[1].kind \in {"dict_text", "str"} THEN items[1].text ELSE <<>>)
         \o JoinParts(Tail(items))

\* str(response) of a list of fragments
ReprList(items) == <<"[">> \o [i \in 1..Len(items) |-> "{fragment}"] \o <<"]">>

\* _extract_text_from_response
extract_text_from_response(response) ==
    IF response.kind = "str" THEN response
    ELSE IF \E i \in 1..Len(response.items) : response.items[i].kind \in {"dict_text", "str"}
         THEN Str(JoinParts(response.items))
         ELSE Str(ReprList(response.items))

RECURSIVE Join(_, _)
\* sep.join(names)
Join(sep, names) ==
    IF Len(names) = 0 THEN <<>>
    ELSE IF Len(names) = 1 THEN <<names[1]>>
    ELSE <<names[1], sep>> \o Join(sep, Tail(names))

\* the tool names are listed last first
CapResponse_Reversed(names) ==
    Str(<<"I apologize, but I reached the maximum number of reasoning steps (",
          ToString(max_iterations),
          ") while trying to answer your question. The tools I used were: ">>
        \o Join(", ", [k \in 1..Len(names) |-> names[Len(names) + 1 - k]])
        \o <<". Please try rephrasing your question or making it more specific.">>)

\* line 588: the response when the cap is hit
CapResponse(names) ==
    Str(<<"I apologize, but I reached the maximum number of reasoning steps (",
          ToString(max_iterations),
          ") while trying to answer your question. The tools I used were: ">>
        \o Join(", ", names)
        \o <<". Please try rephrasing your question or making it more specific.">>)

\* _get_error_response
get_error_response(q, error) ==
    Str(<<"I encountered an error while processing your question: ">> \o q.text
        \o <<"Error: ", error, "Please try rephrasing your question or make it more specific.">>)

token_count ==
    [input_token_count |-> total_input_tokens,
     output_token_count |-> total_output_tokens,
     total_token_count |-> total_input_tokens + total_output_tokens]

\* the history is cut to its first 10 entries
add_to_history_KeepsOldest(history, now, question, response) ==
    LET h == Append(history, [timestamp |-> now, question |-> question,
                              response |-> response, query |-> None, results_count |-> 0])
    IN IF Len(h) > HistoryLimit THEN SubSeq(h, 1, HistoryLimit) ELSE h

\* _add_to_history: the history with one entry more, cut to the last 10;
\* now is the reading of datetime.now() the timestamp is written from
add_to_history(history, now, question, response) ==
    LET h == Append(history, [timestamp |-> now, question |-> question,
                              response |-> response, query |-> None, results_count |-> 0])
    IN IF Len(h) > HistoryLimit THEN SubSeq(h, Len(h) - HistoryLimit + 1, Len(h)) ELSE h

\* a name that matches no tool leaves no output
Dispatch_NoDefault(store, tool_call) ==
    LET tool_name == tool_call.name
        tool_args == tool_call.args
    IN IF tool_name = "get_collection_schema"
       THEN get_collection_schema(store)
       ELSE IF tool_name = "translate_query"
       THEN [output |-> tool_translate_query(
                            IF "user_question" \in DOMAIN tool_args
                            THEN tool_args["user_question"] ELSE Str(<<>>)),
             calls |-> <<>>]
       ELSE IF tool_name = "execute_mongodb_query"
       THEN tool_execute_query(store,
                               IF "query_json" \in DOMAIN tool_args
                               THEN tool_args["query_json"] ELSE [text |-> ""])
       ELSE IF tool_name = "search_web"
       THEN [output |-> tool_search_web(
                            IF "query" \in DOMAIN tool_args
                            THEN tool_args["query"] ELSE JStr(""),
                            IF "max_results" \in DOMAIN tool_args
                            THEN tool_args["max_results"] ELSE JInt(5)),
             calls |-> <<>>]
       ELSE [output |-> Str(<<"None">>), calls |-> <<>>]

\* lines 569-573 and 391-392: the queries the dispatch of an invocation sends
\* to the search provider; the branch does not test self.enable_web_search
SearchesOf(tool_call) ==
    IF tool_call.name = "search_web"
    THEN <<IF "query" \in DOMAIN tool_call.args THEN tool_call.args["query"] ELSE JStr("")>>
    ELSE <<>>

\* lines 552-573: the output of the tool a requested invocation names
Dispatch(store, tool_call) ==
    LET tool_name == tool_call.name
        tool_args == tool_call.args
    IN IF tool_name = "get_collection_schema"
       THEN get_collection_schema(store)
       ELSE IF tool_name = "translate_query"
       THEN [output |-> tool_translate_query(
                            IF "user_question" \in DOMAIN tool_args
                            THEN tool_args["user_question"] ELSE Str(<<>>)),
             calls |-> <<>>]
       ELSE IF tool_name = "execute_mongodb_query"
       THEN tool_execute_query(store,
                               IF "query_json" \in DOMAIN tool_args
                               THEN tool_args["query_json"] ELSE [text |-> ""])
       ELSE IF tool_name = "search_web"
       THEN [output |-> tool_search_web(
                            IF "query" \in DOMAIN tool_args
                            THEN tool_args["query"] ELSE JStr(""),
                            IF "max_results" \in DOMAIN tool_args
                            THEN tool_args["max_results"] ELSE JInt(5)),
             calls |-> <<>>]
       ELSE [output |-> Str(<<"Unknown Tool">>), calls |-> <<>>]

\* the agent after __init__, before any call
\* the turns of a run; the last one is never reached
Turns == 1..(max_iterations + 1)

\* a model that may request any number of invocations up to MaxBatch in any turn
AnyBatch == [i \in Turns |-> 1..MaxBatch]

\* lines 445-488: the system instruction; its web search section is present
\* when the agent was built with web search
system_prompt ==
    IF enable_web_search THEN "system_prompt with web search section" ELSE "system_prompt"

\* no call of process_query is under way
RunIdle ==
    /\ pc = "idle"
    /\ user_question = None
    /\ llm_offset = 0
    /\ messages = <<>>
    /\ iterations = 0
    /\ tool_calls_made = <<>>
    /\ final_response = Str(<<>>)
    /\ total_input_tokens = 0
    /\ total_output_tokens = 0
    /\ ai_msg = None
    /\ tool_idx = 0
    /\ tool_output = None
    /\ llm_invocations = 0
    /\ dispatched = <<>>
    /\ exception = None
    /\ store_calls = <<>>
    /\ web_searches = <<>>
    /\ result = None

\* lines 54-75: the agent after __init__, with a connected store
AgentInit ==
    /\ RunIdle
    /\ llm_batches = AnyBatch
    /\ enable_web_search = TRUE
    /\ mongo = TheStore
    /\ conversation_history = <<>>
    /\ clock = 0

\* no call of the translator is under way
TranslateIdle == tr_response = None /\ tr_outcome = None /\ tr_invocations = 0

\* no call of the executor is under way
ExecIdle == ex_store = None /\ ex_query_json = None /\ ex_outcome = None

\* no call of _serialize_results is under way
SerializeIdle == sr_trace = <<>>

\* no call of the schema tool is under way
SchemaIdle == sc_outcome = None

\* no call of process_query is inside _add_to_history
ThreadsIdle == threads = None

\* no MongoDBClient is under examination
ClientIdle == client = None

\* the chat page is not open
ChatIdle == chat = None

Init ==
    /\ AgentInit
    /\ TranslateIdle
    /\ ExecIdle
    /\ SerializeIdle
    /\ SchemaIdle
    /\ ThreadsIdle
    /\ ClientIdle
    /\ ChatIdle

\* the conversation starts from the questions of the session history
StartQuery_CarriesHistory ==
    /\ pc = "idle"
    /\ \E q \in Questions, offset \in ModelOffsets(mongo) :
        /\ user_question' = q
        /\ llm_offset' = offset
        /\ messages' = <<SystemMessage(system_prompt)>>
                       \o [k \in 1..Len(conversation_history) |->
                              HumanMessage(conversation_history[k].question)]
                       \o <<HumanMessage(q)>>
    /\ iterations' = 0
    /\ tool_calls_made' = <<>>
    /\ final_response' = Str(<<>>)
    /\ total_input_tokens' = 0
    /\ total_output_tokens' = 0
    /\ llm_invocations' = 0
    /\ dispatched' = <<>>
    /\ exception' = None
    /\ pc' = "loop"
    /\ UNCHANGED <<llm_batches, enable_web_search, ai_msg, tool_idx, tool_output, store_calls, web_searches, mongo,
                   conversation_history, result, clock, side_vars>>

\* lines 433-501: process_query is called and sets up the run
StartQuery ==
    /\ pc = "idle"
    /\ \E q \in Questions, offset \in ModelOffsets(mongo) :
        /\ user_question' = q
        /\ llm_offset' = offset
        /\ messages' = <<SystemMessage(system_prompt), HumanMessage(q)>>
    /\ iterations' = 0
    /\ tool_calls_made' = <<>>
    /\ final_response' = Str(<<>>)
    /\ total_input_tokens' = 0
    /\ total_output_tokens' = 0
    /\ llm_invocations' = 0
    /\ dispatched' = <<>>
    /\ exception' = None
    /\ pc' = "loop"
    /\ UNCHANGED <<llm_batches, enable_web_search, ai_msg, tool_idx, tool_output, store_calls, web_searches, mongo,
                   conversation_history, result, clock, side_vars>>

\* the handler returns the failure without the exception message
ThinkThrows_NoMessage ==
    /\ pc = "loop"
    /\ iterations < max_iterations
    /\ iterations' = iterations + 1
    /\ llm_invocations' = llm_invocations + 1
    /\ \E e \in ModelErrors :
        /\ exception' = JStr(e)
        /\ result' = [success |-> FALSE,
                      user_question |-> user_question,
                      response |-> get_error_response(user_question, e),
                      iterations |-> iterations + 1,
                      tools_used |-> tool_calls_made,
                      error |-> None,
                      token_count |-> token_count]
    /\ pc' = "returned"
    /\ UNCHANGED <<user_question, llm_offset, llm_batches, enable_web_search, messages, tool_calls_made, final_response,
                   total_input_tokens, total_output_tokens, ai_msg, tool_idx, tool_output,
                   dispatched, store_calls, web_searches, mongo, conversation_history, clock, side_vars>>

\* the exception of the model invocation leaves process_query uncaught
ThinkThrows_Uncaught ==
    /\ pc = "loop"
    /\ iterations < max_iterations
    /\ iterations' = iterations + 1
    /\ llm_invocations' = llm_invocations + 1
    /\ \E e \in ModelErrors : exception' = JStr(e)
    /\ pc' = "raised"
    /\ UNCHANGED <<user_question, llm_offset, llm_batches, enable_web_search, messages, tool_calls_made, final_response,
                   total_input_tokens, total_output_tokens, ai_msg, tool_idx, tool_output,
                   dispatched, store_calls, web_searches, mongo, conversation_history, result, clock, side_vars>>

\* the handler records the failed run in the session history
ThinkThrows_RecordsFailure ==
    /\ pc = "loop"
    /\ iterations < max_iterations
    /\ iterations' = iterations + 1
    /\ llm_invocations' = llm_invocations + 1
    /\ \E e \in ModelErrors :
        /\ exception' = JStr(e)
        /\ result' = [success |-> FALSE,
                      user_question |-> user_question,
                      response |-> get_error_response(user_question, e),
                      iterations |-> iterations + 1,
                      tools_used |-> tool_calls_made,
                      error |-> JStr(e),
                      token_count |-> token_count]
    /\ pc' = "returned"
    /\ clock' = clock + 1
    /\ \E e \in ModelErrors :
        conversation_history' =
            add_to_history(conversation_history, clock + 1, user_question,
                           get_error_response(user_question, e))
    /\ UNCHANGED <<user_question, llm_offset, llm_batches, enable_web_search, messages, tool_calls_made, final_response,
                   total_input_tokens, total_output_tokens, ai_msg, tool_idx, tool_output,
                   dispatched, store_calls, web_searches, mongo, side_vars>>

\* lines 504-510 and 618-639: the model invocation throws, the handler returns
ThinkThrows ==
    /\ pc = "loop"
    /\ iterations < max_iterations
    /\ iterations' = iterations + 1
    /\ llm_invocations' = llm_invocations + 1
    /\ \E e \in ModelErrors :
        /\ exception' = JStr(e)
        /\ result' = [success |-> FALSE,
                      user_question |-> user_question,
                      response |-> get_error_response(user_question, e),
                      iterations |-> iterations + 1,
                      tools_used |-> tool_calls_made,
                      error |-> JStr(e),
                      token_count |-> token_count]
    /\ pc' = "returned"
    /\ UNCHANGED <<user_question, llm_offset, llm_batches, enable_web_search, messages, tool_calls_made, final_response,
                   total_input_tokens, total_output_tokens, ai_msg, tool_idx, tool_output,
                   dispatched, store_calls, web_searches, mongo, conversation_history, clock, side_vars>>

\* the turn in which the model answers is not counted
ThinkAnswers_NotCounted ==
    /\ pc = "loop"
    /\ iterations < max_iterations
    /\ iterations' = iterations
    /\ llm_invocations' = llm_invocations + 1
    /\ \E content \in AnswerContents :
        LET msg == AIMessage(content, <<>>, ResponseMetadata(iterations + 1)) IN
        /\ ai_msg' = msg
        /\ messages' = Append(messages, msg)
        /\ total_input_tokens' = total_input_tokens + TokensOf(msg.response_metadata).input
        /\ total_output_tokens' = total_output_tokens + TokensOf(msg.response_metadata).output
        /\ final_response' = msg.content
    /\ pc' = "after"
    /\ UNCHANGED <<user_question, llm_offset, llm_batches, enable_web_search, tool_calls_made, tool_idx, tool_output,
                   dispatched, exception, store_calls, web_searches, mongo, conversation_history, result, clock, side_vars>>

\* lines 504-540: the model answers without requesting a tool
ThinkAnswers ==
    /\ pc = "loop"
    /\ iterations < max_iterations
    /\ iterations' = iterations + 1
    /\ llm_invocations' = llm_invocations + 1
    /\ \E content \in AnswerContents :
        LET msg == AIMessage(content, <<>>, ResponseMetadata(iterations + 1)) IN
        /\ ai_msg' = msg
        /\ messages' = Append(messages, msg)
        /\ total_input_tokens' = total_input_tokens + TokensOf(msg.response_metadata).input
        /\ total_output_tokens' = total_output_tokens + TokensOf(msg.response_metadata).output
        /\ final_response' = msg.content
    /\ pc' = "after"
    /\ UNCHANGED <<user_question, llm_offset, llm_batches, enable_web_search, tool_calls_made, tool_idx, tool_output,
                   dispatched, exception, store_calls, web_searches, mongo, conversation_history, result, clock, side_vars>>

\* the loop test lets one iteration too many through
ThinkCallsTools_OffByOne ==
    /\ pc = "loop"
    /\ iterations <= max_iterations
    /\ iterations' = iterations + 1
    /\ llm_invocations' = llm_invocations + 1
    /\ \E n \in llm_batches[iterations + 1] :
        LET msg == AIMessage(Str(<<>>),
                             ToolCalls(llm_offset, NumRequested(messages), n, user_question),
                             ResponseMetadata(iterations + 1)) IN
        /\ ai_msg' = msg
        /\ messages' = Append(messages, msg)
        /\ total_input_tokens' = total_input_tokens + TokensOf(msg.response_metadata).input
        /\ total_output_tokens' = total_output_tokens + TokensOf(msg.response_metadata).output
    /\ tool_idx' = 1
    /\ pc' = "act"
    /\ UNCHANGED <<user_question, llm_offset, llm_batches, enable_web_search, tool_calls_made, final_response, tool_output,
                   dispatched, exception, store_calls, web_searches, mongo, conversation_history, result, clock, side_vars>>

\* lines 504-544: the model requests tool invocations
ThinkCallsTools ==
    /\ pc = "loop"
    /\ iterations < max_iterations
    /\ iterations' = iterations + 1
    /\ llm_invocations' = llm_invocations + 1
    /\ \E n \in llm_batches[iterations + 1] :
        LET msg == AIMessage(Str(<<>>),
                             ToolCalls(llm_offset, NumRequested(messages), n, user_question),
                             ResponseMetadata(iterations + 1)) IN
        /\ ai_msg' = msg
        /\ messages' = Append(messages, msg)
        /\ total_input_tokens' = total_input_tokens + TokensOf(msg.response_metadata).input
        /\ total_output_tokens' = total_output_tokens + TokensOf(msg.response_metadata).output
    /\ tool_idx' = 1
    /\ pc' = "act"
    /\ UNCHANGED <<user_question, llm_offset, llm_batches, enable_web_search, tool_calls_made, final_response, tool_output,
                   dispatched, exception, store_calls, web_searches, mongo, conversation_history, result, clock, side_vars>>

\* only the tools the agent knows are recorded
DispatchTool_RecordKnownOnly ==
    /\ pc = "act"
    /\ LET tool_call == ai_msg.tool_calls[tool_idx]
           d == Dispatch(StoreView(mongo), tool_call)
       IN /\ tool_calls_made' = IF d.output = Str(<<"Unknown Tool">>) THEN tool_calls_made
                                ELSE Append(tool_calls_made, tool_call.name)
          /\ tool_output' = d.output
          /\ store_calls' = store_calls \o d.calls
          /\ mongo' = StoreAfter(mongo, d.calls)
          /\ web_searches' = web_searches \o SearchesOf(tool_call)
          /\ dispatched' = Append(dispatched, tool_call.id)
    /\ pc' = "observe"
    /\ UNCHANGED <<user_question, llm_offset, llm_batches, enable_web_search, messages, iterations, final_response,
                   total_input_tokens, total_output_tokens, ai_msg, tool_idx,
                   llm_invocations, exception, conversation_history, result, clock, side_vars>>

\* the invocations of a turn are dispatched last first
DispatchTool_Reversed ==
    /\ pc = "act"
    /\ LET tool_call == ai_msg.tool_calls[Len(ai_msg.tool_calls) + 1 - tool_idx]
           d == Dispatch(StoreView(mongo), tool_call)
       IN /\ tool_calls_made' = Append(tool_calls_made, tool_call.name)
          /\ tool_output' = d.output
          /\ store_calls' = store_calls \o d.calls
          /\ mongo' = StoreAfter(mongo, d.calls)
          /\ web_searches' = web_searches \o SearchesOf(tool_call)
          /\ dispatched' = Append(dispatched, tool_call.id)
    /\ pc' = "observe"
    /\ UNCHANGED <<user_question, llm_offset, llm_batches, enable_web_search, messages, iterations, final_response,
                   total_input_tokens, total_output_tokens, ai_msg, tool_idx,
                   llm_invocations, exception, conversation_history, result, clock, side_vars>>

\* lines 544-573: the next invocation of the turn is recorded and dispatched
DispatchTool ==
    /\ pc = "act"
    /\ LET tool_call == ai_msg.tool_calls[tool_idx]
           d == Dispatch(StoreView(mongo), tool_call)
       IN /\ tool_calls_made' = Append(tool_calls_made, tool_call.name)
          /\ tool_output' = d.output
          /\ store_calls' = store_calls \o d.calls
          /\ mongo' = StoreAfter(mongo, d.calls)
          /\ web_searches' = web_searches \o SearchesOf(tool_call)
          /\ dispatched' = Append(dispatched, tool_call.id)
    /\ pc' = "observe"
    /\ UNCHANGED <<user_question, llm_offset, llm_batches, enable_web_search, messages, iterations, final_response,
                   total_input_tokens, total_output_tokens, ai_msg, tool_idx,
                   llm_invocations, exception, conversation_history, result, clock, side_vars>>

\* the observation of a tool the agent does not know is dropped
Observe_DropUnknown ==
    /\ pc = "observe"
    /\ messages' = IF tool_output = Str(<<"Unknown Tool">>) THEN messages
                   ELSE Append(messages,
                               ToolMessage(tool_output, ai_msg.tool_calls[tool_idx].id))
    /\ IF tool_idx < Len(ai_msg.tool_calls)
       THEN /\ tool_idx' = tool_idx + 1
            /\ pc' = "act"
       ELSE /\ tool_idx' = tool_idx
            /\ pc' = "loop"
    /\ UNCHANGED <<user_question, llm_offset, llm_batches, enable_web_search, iterations, tool_calls_made, final_response,
                   total_input_tokens, total_output_tokens, ai_msg, tool_output,
                   llm_invocations, dispatched, exception, store_calls, web_searches, mongo,
                   conversation_history, result, clock, side_vars>>

\* the observation takes the place of the last message of the conversation
Observe_ReplacesLast ==
    /\ pc = "observe"
    /\ messages' = [messages EXCEPT ![Len(messages)] =
                       ToolMessage(tool_output, ai_msg.tool_calls[tool_idx].id)]
    /\ IF tool_idx < Len(ai_msg.tool_calls)
       THEN /\ tool_idx' = tool_idx + 1
            /\ pc' = "act"
       ELSE /\ tool_idx' = tool_idx
            /\ pc' = "loop"
    /\ UNCHANGED <<user_question, llm_offset, llm_batches, enable_web_search, iterations, tool_calls_made, final_response,
                   total_input_tokens, total_output_tokens, ai_msg, tool_output,
                   llm_invocations, dispatched, exception, store_calls, web_searches, mongo,
                   conversation_history, result, clock, side_vars>>

\* lines 575-583: the observation is appended, the for loop moves on
Observe ==
    /\ pc = "observe"
    /\ messages' = Append(messages, ToolMessage(tool_output, ai_msg.tool_calls[tool_idx].id))
    /\ IF tool_idx < Len(ai_msg.tool_calls)
       THEN /\ tool_idx' = tool_idx + 1
            /\ pc' = "act"
       ELSE /\ tool_idx' = tool_idx
            /\ pc' = "loop"
    /\ UNCHANGED <<user_question, llm_offset, llm_batches, enable_web_search, iterations, tool_calls_made, final_response,
                   total_input_tokens, total_output_tokens, ai_msg, tool_output,
                   llm_invocations, dispatched, exception, store_calls, web_searches, mongo,
                   conversation_history, result, clock, side_vars>>

\* line 587-588: the response the run ends with
FinalResponse ==
    IF iterations >= max_iterations THEN CapResponse(tool_calls_made) ELSE final_response

\* the result is built only after an answer of the model
Finish_OnlyAfterAnswer ==
    /\ pc = "after"
    /\ LET clean_response == extract_text_from_response(FinalResponse) IN
        /\ final_response' = FinalResponse
        /\ clock' = clock + 1
        /\ conversation_history' =
               add_to_history(conversation_history, clock + 1, user_question, clean_response)
        /\ result' = [success |-> TRUE,
                      user_question |-> user_question,
                      response |-> clean_response,
                      iterations |-> iterations,
                      tools_used |-> tool_calls_made,
                      error |-> None,
                      token_count |-> token_count]
    /\ pc' = "returned"
    /\ UNCHANGED <<user_question, llm_offset, llm_batches, enable_web_search, messages, iterations, tool_calls_made,
                   total_input_tokens, total_output_tokens, ai_msg, tool_idx, tool_output,
                   llm_invocations, dispatched, exception, store_calls, web_searches, mongo, side_vars>>

\* at the cap the run ends before the invocations of the last response are dispatched
Finish_BeforeDispatch ==
    /\ \/ pc = "after"
       \/ pc \in {"loop", "act"} /\ ~(iterations < max_iterations)
    /\ LET clean_response == extract_text_from_response(FinalResponse) IN
        /\ final_response' = FinalResponse
        /\ clock' = clock + 1
        /\ conversation_history' =
               add_to_history(conversation_history, clock + 1, user_question, clean_response)
        /\ result' = [success |-> TRUE,
                      user_question |-> user_question,
                      response |-> clean_response,
                      iterations |-> iterations,
                      tools_used |-> tool_calls_made,
                      error |-> None,
                      token_count |-> token_count]
    /\ pc' = "returned"
    /\ UNCHANGED <<user_question, llm_offset, llm_batches, enable_web_search, messages, iterations, tool_calls_made,
                   total_input_tokens, total_output_tokens, ai_msg, tool_idx, tool_output,
                   llm_invocations, dispatched, exception, store_calls, web_searches, mongo, side_vars>>

\* lines 585-616: the loop is over, the result is built and returned
Finish ==
    /\ \/ pc = "after"
       \/ pc = "loop" /\ ~(iterations < max_iterations)
    /\ LET clean_response == extract_text_from_response(FinalResponse) IN
        /\ final_response' = FinalResponse
        /\ clock' = clock + 1
        /\ conversation_history' =
               add_to_history(conversation_history, clock + 1, user_question, clean_response)
        /\ result' = [success |-> TRUE,
                      user_question |-> user_question,
                      response |-> clean_response,
                      iterations |-> iterations,
                      tools_used |-> tool_calls_made,
                      error |-> None,
                      token_count |-> token_count]
    /\ pc' = "returned"
    /\ UNCHANGED <<user_question, llm_offset, llm_batches, enable_web_search, messages, iterations, tool_calls_made,
                   total_input_tokens, total_output_tokens, ai_msg, tool_idx, tool_output,
                   llm_invocations, dispatched, exception, store_calls, web_searches, mongo, side_vars>>

Next ==
    \/ StartQuery
    \/ ThinkThrows
    \/ ThinkAnswers
    \/ ThinkCallsTools
    \/ DispatchTool
    \/ Observe
    \/ Finish

Spec == Init /\ [][Next]_vars

(***************************************************************************)
(* The translator on its own: translate applied to every response          *)
(***************************************************************************)
TranslateInit ==
    /\ AgentInit
    /\ ExecIdle
    /\ SerializeIdle
    /\ SchemaIdle
    /\ ThreadsIdle
    /\ ClientIdle
    /\ ChatIdle
    /\ tr_response \in TrResponses
    /\ tr_outcome = None
    /\ tr_invocations = 0

\* translate asks the model a second time when the first response is refused
Translate_Retries ==
    /\ tr_outcome = None
    /\ tr_outcome' = translate(tr_response)
    /\ tr_invocations' = IF translate(tr_response).kind = "raised" THEN tr_invocations + 2
                                                           ELSE tr_invocations + 1
    /\ UNCHANGED <<tr_response, loop_vars, ex_vars, sr_vars, sc_vars, cc_vars, mc_vars, ch_vars>>

\* translate, lines 211-321
Translate ==
    /\ tr_outcome = None
    /\ tr_outcome' = translate(tr_response)
    /\ tr_invocations' = tr_invocations + 1
    /\ UNCHANGED <<tr_response, loop_vars, ex_vars, sr_vars, sc_vars, cc_vars, mc_vars, ch_vars>>

TranslateNext == Translate

TranslateSpec == TranslateInit /\ [][TranslateNext]_vars

(***************************************************************************)
(* The executor on its own: _tool_execute_query applied to every argument  *)
(* against every store                                                     *)
(***************************************************************************)
\* values a pipeline field may hold that are not a sequence
NotASequence == {JStr("$limit"), JInt(5), Stage({"$limit"}), Stage({"$match"})}

\* the query_json strings the executor may be given
ExecArguments ==
    {Dumps(p) : p \in ParsedResponses}
    \cup {Dumps(JDict(("query_type" :> JStr("aggregate")) @@ ("query" :> p))) : p \in Pipelines}
    \cup {Dumps(JDict(("query_type" :> JStr("aggregate"))
                      @@ ("query" :> JDict("pipeline" :> v)))) : v \in NotASequence}
    \cup {Dumps(JDict(("query_type" :> JStr("find")) @@ ("query" :> JStr("all")))),
          Dumps(JDict(("query_type" :> JStr("aggregate")) @@ ("query" :> JDict(EmptyMap)))),
          Dumps(JStr("find")), Dumps(JInt(5)),
          [text |-> "run it"], [text |-> ""]}

ExecInit ==
    /\ AgentInit
    /\ TranslateIdle
    /\ SerializeIdle
    /\ SchemaIdle
    /\ ThreadsIdle
    /\ ClientIdle
    /\ ChatIdle
    /\ ex_store \in Stores
    /\ ex_query_json \in ExecArguments
    /\ ex_outcome = None

\* _tool_execute_query, lines 269-356
ExecuteQuery ==
    /\ ex_outcome = None
    /\ ex_outcome' = tool_execute_query(ex_store, ex_query_json)
    /\ UNCHANGED <<ex_store, ex_query_json, loop_vars, tr_vars, sr_vars, sc_vars, cc_vars, mc_vars, ch_vars>>

\* the get_collection_schema tool, lines 156-198, against the same store
InspectSchema ==
    /\ sc_outcome = None
    /\ sc_outcome' = get_collection_schema(ex_store)
    /\ UNCHANGED <<loop_vars, tr_vars, ex_vars, sr_vars, cc_vars, mc_vars, ch_vars>>

ExecNext == ExecuteQuery \/ InspectSchema

ExecSpec == ExecInit /\ [][ExecNext]_vars

(***************************************************************************)
(* Normalisation on its own: _serialize_results applied again and again    *)
(***************************************************************************)
\* the records a record set is made of
Records ==
    {StoreDocs[1], StoreDocs[2], NativeDocs[1], NativeDocs[2], NestedDocs[1],
     JDict(("_id" :> JOid("65a3")) @@ ("dates" :> JList(<<JDate("2014-01-01T00:00:00")>>)))}

RecordSets == SeqsUpTo(Records, MaxRecords)

SerializeInit ==
    /\ AgentInit
    /\ TranslateIdle
    /\ ExecIdle
    /\ SchemaIdle
    /\ ThreadsIdle
    /\ ClientIdle
    /\ ChatIdle
    /\ sr_trace \in {<<R>> : R \in RecordSets}

\* _serialize_results, lines 358-381, called on the record set obtained last
Serialize ==
    /\ Len(sr_trace) >= 1
    /\ Len(sr_trace) <= MaxPasses
    /\ sr_trace' = Append(sr_trace, serialize_results(sr_trace[Len(sr_trace)]))
    /\ UNCHANGED <<loop_vars, tr_vars, ex_vars, sc_vars, cc_vars, mc_vars, ch_vars>>

SerializeNext == Serialize

SerializeSpec == SerializeInit /\ [][SerializeNext]_vars

(***************************************************************************)
(* The session history of one agent over many calls: each call of          *)
(* process_query is taken as a whole, by what it leaves in                 *)
(* conversation_history                                                    *)
(***************************************************************************)
\* the answers the runs end with
HistoryResponses == {Str(<<"answer">>)}

HistoryInit == Init

\* process_query from call to return, for a run that returns success: it
\* has gone through _add_to_history (line 597)
ProcessQuery ==
    /\ clock < MaxCalls
    /\ clock' = clock + 1
    /\ exception' = None
    /\ \E q \in Questions, response \in HistoryResponses :
        /\ user_question' = q
        /\ conversation_history' =
               add_to_history(conversation_history, clock + 1, q, response)
    /\ UNCHANGED <<pc, llm_offset, llm_batches, enable_web_search, messages, iterations, tool_calls_made,
                   final_response, total_input_tokens, total_output_tokens, ai_msg,
                   tool_idx, tool_output, llm_invocations, dispatched,
                   store_calls, web_searches, mongo, result, side_vars>>

\* process_query from call to return, for a run that ends in the handler of
\* lines 618-639: the history is not touched
ProcessQueryFails ==
    /\ \E q \in Questions, e \in ModelErrors :
        /\ user_question' = q
        /\ exception' = JStr(e)
    /\ UNCHANGED <<pc, llm_offset, llm_batches, enable_web_search, messages, iterations, tool_calls_made,
                   final_response, total_input_tokens, total_output_tokens, ai_msg,
                   tool_idx, tool_output, llm_invocations, dispatched,
                   store_calls, web_searches, mongo, conversation_history, result, clock, side_vars>>

\* clear_history, lines 688-691
ClearHistory ==
    /\ conversation_history' = <<>>
    /\ UNCHANGED <<pc, user_question, llm_offset, llm_batches, enable_web_search, messages, iterations, tool_calls_made,
                   final_response, total_input_tokens, total_output_tokens, ai_msg,
                   tool_idx, tool_output, llm_invocations, dispatched, exception,
                   store_calls, web_searches, mongo, result, clock, side_vars>>

HistoryNext == ProcessQuery \/ ProcessQueryFails \/ ClearHistory

HistorySpec == HistoryInit /\ [][HistoryNext]_vars

(***************************************************************************)
(* The loop against a store that fails: the client is not connected, or    *)
(* the connection is lost for a number of operations                       *)
(***************************************************************************)
\* the number of store operations an outage lasts
OutageLength == 2

OutageStores ==
    {[TheStore EXCEPT !.connected = FALSE], [TheStore EXCEPT !.outage = OutageLength]}

OutageInit ==
    /\ RunIdle
    /\ llm_batches = AnyBatch
    /\ enable_web_search = TRUE
    /\ mongo \in OutageStores
    /\ conversation_history = <<>>
    /\ clock = 0
    /\ TranslateIdle
    /\ ExecIdle
    /\ SerializeIdle
    /\ SchemaIdle
    /\ ThreadsIdle
    /\ ClientIdle
    /\ ChatIdle

OutageSpec == OutageInit /\ [][Next]_vars

(***************************************************************************)
(* The loop of an agent that has processed queries before                  *)
(***************************************************************************)
\* the history n earlier successful calls of process_query leave
RECURSIVE PriorHistory(_)
PriorHistory(n) ==
    IF n = 0 THEN <<>>
    ELSE add_to_history(PriorHistory(n - 1), n, Str(<<"earlier question">>),
                        Str(<<"earlier answer">>))

\* the numbers of earlier calls
PriorCalls == {0, HistoryLimit + 1}

FreshInit ==
    /\ RunIdle
    /\ llm_batches = AnyBatch
    /\ enable_web_search = TRUE
    /\ mongo = TheStore
    /\ \E n \in PriorCalls :
        /\ conversation_history = PriorHistory(n)
        /\ clock = n
    /\ TranslateIdle
    /\ ExecIdle
    /\ SerializeIdle
    /\ SchemaIdle
    /\ ThreadsIdle
    /\ ClientIdle
    /\ ChatIdle

FreshSpec == FreshInit /\ [][Next]_vars

(***************************************************************************)
(* Two calls of process_query on one agent that overlap in time. Up to     *)
(* line 596 a call works on its locals; from line 597 on it reads and      *)
(* writes self.conversation_history in the steps of _add_to_history, and   *)
(* the steps of the two calls interleave.                                  *)
(***************************************************************************)
Threads == {1, 2}

\* the entry _add_to_history appends, lines 672-678
HistoryEntry(now, question, response) ==
    [timestamp |-> now, question |-> question, response |-> response,
     query |-> None, results_count |-> 0]

\* the numbers of calls the agent has completed before the two
EarlierCalls == 0..(HistoryLimit + 1)

ConcurrentInit ==
    /\ RunIdle
    /\ llm_batches = AnyBatch
    /\ enable_web_search = TRUE
    /\ mongo = TheStore
    /\ TranslateIdle
    /\ ExecIdle
    /\ SerializeIdle
    /\ SchemaIdle
    /\ ClientIdle
    /\ ChatIdle
    /\ \E n \in EarlierCalls, qs \in [Threads -> Questions] :
        /\ conversation_history = PriorHistory(n)
        /\ clock = n
        /\ threads = [before |-> PriorHistory(n),
                      start |-> n,
                      calls |-> [t \in Threads |->
                                    [at |-> "append", question |-> qs[t],
                                     response |-> Str(<<"answer">>), kept |-> <<>>]]]

\* lines 672-678: self.conversation_history.append({...})
AppendEntry ==
    \E t \in Threads :
        /\ threads.calls[t].at = "append"
        /\ clock' = clock + 1
        /\ conversation_history' =
               Append(conversation_history,
                      HistoryEntry(clock + 1, threads.calls[t].question,
                                   threads.calls[t].response))
        /\ threads' = [threads EXCEPT !.calls[t].at = "test"]
        /\ UNCHANGED <<pc, user_question, llm_offset, llm_batches, enable_web_search, messages, iterations,
                       tool_calls_made, final_response, total_input_tokens,
                       total_output_tokens, ai_msg, tool_idx, tool_output,
                       llm_invocations, dispatched, exception, store_calls, web_searches, mongo,
                       result, tr_vars, ex_vars, sr_vars, sc_vars, mc_vars, ch_vars>>

\* line 681: if len(self.conversation_history) > 10
TestLength ==
    \E t \in Threads :
        /\ threads.calls[t].at = "test"
        /\ threads' = [threads EXCEPT !.calls[t].at =
                           IF Len(conversation_history) > HistoryLimit
                           THEN "slice" ELSE "done"]
        /\ UNCHANGED <<loop_vars, tr_vars, ex_vars, sr_vars, sc_vars, mc_vars, ch_vars>>

\* line 682, right-hand side: self.conversation_history[-10:] makes a new list
TakeLast ==
    \E t \in Threads :
        /\ threads.calls[t].at = "slice"
        /\ threads' = [threads EXCEPT
               !.calls[t].at = "assign",
               !.calls[t].kept =
                   IF Len(conversation_history) > HistoryLimit
                   THEN SubSeq(conversation_history,
                               Len(conversation_history) - HistoryLimit + 1,
                               Len(conversation_history))
                   ELSE conversation_history]
        /\ UNCHANGED <<loop_vars, tr_vars, ex_vars, sr_vars, sc_vars, mc_vars, ch_vars>>

\* line 682, the assignment: self.conversation_history = <the new list>
StoreHistory ==
    \E t \in Threads :
        /\ threads.calls[t].at = "assign"
        /\ conversation_history' = threads.calls[t].kept
        /\ threads' = [threads EXCEPT !.calls[t].at = "done"]
        /\ UNCHANGED <<pc, user_question, llm_offset, llm_batches, enable_web_search, messages, iterations,
                       tool_calls_made, final_response, total_input_tokens,
                       total_output_tokens, ai_msg, tool_idx, tool_output,
                       llm_invocations, dispatched, exception, store_calls, web_searches, mongo,
                       result, clock, tr_vars, ex_vars, sr_vars, sc_vars, mc_vars, ch_vars>>

ConcurrentNext == AppendEntry \/ TestLength \/ TakeLast \/ StoreHistory

ConcurrentSpec == ConcurrentInit /\ [][ConcurrentNext]_vars

(***************************************************************************)
(* The loop when every model invocation and every tool call returns        *)
(***************************************************************************)
\* llm_with_tools.invoke returns or throws
Think == ThinkThrows \/ ThinkAnswers \/ ThinkCallsTools

\* models whose turns request a fixed number of invocations: always one,
\* always MaxBatch, the two in alternation, or any number in the first turn
\* and one afterwards
LiveBatches ==
    {[i \in Turns |-> {1}],
     [i \in Turns |-> {MaxBatch}],
     [i \in Turns |-> IF i % 2 = 1 THEN {1} ELSE {MaxBatch}],
     [i \in Turns |-> IF i = 1 THEN 1..MaxBatch ELSE {1}]}

LiveInit ==
    /\ RunIdle
    /\ llm_batches \in LiveBatches
    /\ enable_web_search = TRUE
    /\ mongo = TheStore
    /\ conversation_history = <<>>
    /\ clock = 0
    /\ TranslateIdle
    /\ ExecIdle
    /\ SerializeIdle
    /\ SchemaIdle
    /\ ThreadsIdle
    /\ ClientIdle
    /\ ChatIdle

LiveSpec ==
    /\ LiveInit
    /\ [][Next]_vars
    /\ WF_vars(Think)
    /\ WF_vars(DispatchTool)
    /\ WF_vars(Observe)
    /\ WF_vars(Finish)

(***************************************************************************)
(* The loop of an agent built with enable_web_search = False               *)
(***************************************************************************)
NoSearchInit ==
    /\ RunIdle
    /\ llm_batches = AnyBatch
    /\ enable_web_search = FALSE
    /\ mongo = TheStore
    /\ conversation_history = <<>>
    /\ clock = 0
    /\ TranslateIdle
    /\ ExecIdle
    /\ SerializeIdle
    /\ SchemaIdle
    /\ ThreadsIdle
    /\ ClientIdle
    /\ ChatIdle

NoSearchSpec == NoSearchInit /\ [][Next]_vars

(***************************************************************************)
(* MongoDBClient on its own: any sequence of connect and disconnect calls, *)
(* and reads of the collection property                                    *)
(***************************************************************************)
\* the longest sequence of connect and disconnect calls
MaxOps == 4

\* how a connect call may go: the server answers the ping; the ping fails
\* (lines 70-72); MongoClient(...) itself throws (lines 73-75)
ConnectOutcomes == {"connected", "ping failed", "constructor failed"}

\* the n-th MongoClient object, and the database and collection taken from it
MongoClient(n) == [client |-> n]

CollectionOf(n) == [client |-> n, name |-> "collection_name"]

\* __init__, lines 43-45; calls is the sequence of calls made so far and read
\* the outcome of the last read of the collection property since the last call
NewMongoDBClient ==
    [_client |-> None, _db |-> None, _collection |-> None,
     calls |-> <<>>, read |-> None]

\* the collection property, lines 102-115
collection(c) ==
    IF c._collection = None THEN Raised("RuntimeError")
    ELSE Returned(c._collection)

\* connect, lines 47-75, with the given outcome, as the n-th call
connect(c, outcome, n) ==
    IF outcome = "constructor failed"
    THEN [c EXCEPT !.calls = Append(@, [call |-> "connect", returned |-> FALSE]),
                   !.read = None]
    ELSE IF outcome = "ping failed"
    THEN [c EXCEPT !._client = MongoClient(n),
                   !.calls = Append(@, [call |-> "connect", returned |-> FALSE]),
                   !.read = None]
    ELSE [c EXCEPT !._client = MongoClient(n),
                   !._db = [client |-> n, name |-> "db_name"],
                   !._collection = CollectionOf(n),
                   !.calls = Append(@, [call |-> "connect", returned |-> TRUE]),
                   !.read = None]

\* disconnect, lines 77-84
disconnect(c) ==
    IF c._client # None
    THEN [c EXCEPT !._client = None, !._db = None, !._collection = None,
                   !.calls = Append(@, [call |-> "disconnect", returned |-> None]),
                   !.read = None]
    ELSE [c EXCEPT !.calls = Append(@, [call |-> "disconnect", returned |-> None]),
                   !.read = None]

ClientInit ==
    /\ AgentInit
    /\ TranslateIdle
    /\ ExecIdle
    /\ SerializeIdle
    /\ SchemaIdle
    /\ ThreadsIdle
    /\ ChatIdle
    /\ client = NewMongoDBClient

Connect ==
    /\ Len(client.calls) < MaxOps
    /\ \E outcome \in ConnectOutcomes :
           client' = connect(client, outcome, Len(client.calls) + 1)
    /\ UNCHANGED <<loop_vars, tr_vars, ex_vars, sr_vars, sc_vars, cc_vars, ch_vars>>

Disconnect ==
    /\ Len(client.calls) < MaxOps
    /\ client' = disconnect(client)
    /\ UNCHANGED <<loop_vars, tr_vars, ex_vars, sr_vars, sc_vars, cc_vars, ch_vars>>

ReadCollection ==
    /\ client.read = None
    /\ client' = [client EXCEPT !.read = collection(client)]
    /\ UNCHANGED <<loop_vars, tr_vars, ex_vars, sr_vars, sc_vars, cc_vars, ch_vars>>

ClientNext ==
    \/ Connect
    \/ Disconnect
    \/ ReadCollection

ClientSpec == ClientInit /\ [][ClientNext]_vars

(***************************************************************************)
(* The chat page: questions, answers, feedback buttons and the interaction *)
(* log (pages/3_Chat_Assistant.py, src/chat_logger.py)                     *)
(***************************************************************************)
\* the most questions asked and feedback buttons pressed in one session
MaxQuestions == 2

MaxClicks == 2

\* the k-th question of the session and the agent's response to it
Question(k) == [question |-> k]

AgentResults(k) ==
    {[success |-> s, response |-> [answer_to |-> k, success |-> s]] : s \in BOOLEAN}

\* the session state of the page (app.py lines 46-63); log is the log
\* destination, the BigQuery
\* table or the CSV file, as the sequence of its rows
NewChat(enabled) ==
    [enabled |-> enabled, messages |-> <<>>,
     message_feedback |-> <<>>, log |-> <<>>, clicks |-> 0]

\* ChatLogger.log_interaction, lines 160-215: insert_rows_json or a CSV file
\* opened in append mode both add a row and touch no other
log_interaction(log, enabled, user_query, response, user_feedback) ==
    IF ~enabled THEN log
    ELSE Append(log, [user_query |-> user_query, response |-> response,
                      user_feedback |-> user_feedback])

\* the last user message before message_idx, lines 36-41
UserQueryBefore(msgs, message_idx) ==
    LET users == {i \in 1..(message_idx - 1) : msgs[i].role = "user"} IN
    IF users = {} THEN ""
    ELSE msgs[CHOOSE i \in users : \A j \in users : j <= i].content

\* log_chat_interaction, lines 14-65; message_idx counts from 1 here
log_chat_interaction(c, message_idx, feedback) ==
    IF ~c.enabled THEN c.log
    ELSE IF message_idx > Len(c.messages) \/ c.messages[message_idx].role # "assistant"
    THEN c.log
    ELSE log_interaction(c.log, c.enabled,
                         UserQueryBefore(c.messages, message_idx),
                         c.messages[message_idx].content, feedback)

ChatInit ==
    /\ AgentInit
    /\ TranslateIdle
    /\ ExecIdle
    /\ SerializeIdle
    /\ SchemaIdle
    /\ ThreadsIdle
    /\ ClientIdle
    /\ chat \in {NewChat(enabled) : enabled \in BOOLEAN}

\* the page's process_query, lines 239-289: the agent's result is shown, and
\* logged with feedback NA when it is a success
AskQuestion ==
    /\ Len(chat.messages) < 2 * MaxQuestions
    /\ LET k == (Len(chat.messages) \div 2) + 1
           asked == Append(chat.messages, [role |-> "user", content |-> Question(k)])
       IN \E agent_result \in AgentResults(k) :
           LET shown == [chat EXCEPT !.messages =
                            Append(asked, [role |-> "assistant",
                                           content |-> agent_result.response,
                                           query_data |-> agent_result])]
           IN chat' = IF agent_result.success
                      THEN [shown EXCEPT !.log =
                               log_chat_interaction(shown, Len(shown.messages), "NA")]
                      ELSE shown
    /\ UNCHANGED <<loop_vars, tr_vars, ex_vars, sr_vars, sc_vars, cc_vars, mc_vars>>

\* a feedback button under an assistant message, lines 205-236
GiveFeedback ==
    /\ chat.enabled
    /\ chat.clicks < MaxClicks
    /\ \E message_idx \in 1..Len(chat.messages), feedback \in {"upvote", "downvote"} :
        /\ chat.messages[message_idx].role = "assistant"
        /\ LET marked == [chat EXCEPT !.message_feedback =
                              (message_idx :> feedback) @@ @,
                                      !.clicks = @ + 1]
           IN chat' = [marked EXCEPT !.log =
                          log_chat_interaction(marked, message_idx, feedback)]
    /\ UNCHANGED <<loop_vars, tr_vars, ex_vars, sr_vars, sc_vars, cc_vars, mc_vars>>

ChatNext ==
    \/ AskQuestion
    \/ GiveFeedback

ChatSpec == ChatInit /\ [][ChatNext]_vars

(***************************************************************************)
(* Properties                                                              *)
(***************************************************************************)
RECURSIVE CallsUpTo(_, _)
\* the tool invocations the first n messages request, in order
CallsUpTo(msgs, n) ==
    IF n = 0 THEN <<>>
    ELSE CallsUpTo(msgs, n - 1)
         \o (IF msgs[n].type = "ai" THEN msgs[n].tool_calls ELSE <<>>)

\* the tool invocations the model messages of a conversation request, in order
RequestedCalls(msgs) == CallsUpTo(msgs, Len(msgs))

\* the positions of the tool observations of a conversation
ObservationsAt(msgs) == {j \in 1..Len(msgs) : msgs[j].type = "tool"}

\* the positions of the model messages of a conversation
ModelMessagesAt(msgs) == {j \in 1..Len(msgs) : msgs[j].type = "ai"}

ResultFields == {"success", "response", "iterations", "tools_used", "token_count", "error"}

\* C1: process_query never raises: whatever the model and the tools do, also
\* when a model invocation throws, the call returns a record that has the
\* fields success, response, iterations, tools_used, token_count and error.
C1_AlwaysReturnsResult ==
    /\ pc \in {"idle", "loop", "act", "observe", "after", "returned"}
    /\ pc = "returned" =>
        /\ ResultFields \subseteq DOMAIN result
        /\ result.success \in BOOLEAN
        /\ result.iterations \in Nat
        /\ result.response.kind = "str"

\* a run in which the model threw after tools had been used has returned
C1_Witness ==
    /\ pc = "returned"
    /\ exception # None
    /\ result.iterations > 1
    /\ Len(result.tools_used) > 0

\* C2: in every run the returned iterations value is at most 8 and the model
\* is invoked at most 8 times.
C2_AtMostEightIterations ==
    /\ llm_invocations <= 8
    /\ iterations <= 8
    /\ pc = "returned" => result.iterations <= 8

\* a run that used all eight invocations has returned
C2_Witness ==
    /\ pc = "returned"
    /\ result.iterations = 8
    /\ llm_invocations = 8

\* C3: whenever the model is about to be invoked again, every tool invocation
\* its earlier responses requested has exactly one observation with the same
\* call id in the conversation.
C3_OneObservationPerInvocation ==
    (pc = "loop" /\ iterations < max_iterations) =>
        LET calls == RequestedCalls(messages) IN
        \A k \in 1..Len(calls) :
            Cardinality({j \in ObservationsAt(messages) :
                            messages[j].tool_call_id = calls[k].id}) = 1

\* the model is about to be invoked a third time after requesting several tools
C3_Witness ==
    /\ pc = "loop"
    /\ iterations = 2
    /\ Len(RequestedCalls(messages)) >= 3
    /\ Cardinality(ObservationsAt(messages)) >= 3

\* the names of a sequence of tool invocations
NamesOf(calls) == [k \in 1..Len(calls) |-> calls[k].name]

\* the last message of the conversation is a model message without tool invocations
EndsWithAnswer ==
    /\ Len(messages) > 0
    /\ messages[Len(messages)].type = "ai"
    /\ Len(messages[Len(messages)].tool_calls) = 0

\* C4: a model response without tool invocations, on any of the entries 1..8,
\* ends the run in DONE: success is true and the response is the plain text
\* of that message's content, never the cap-hit apology.
C4_AnswerEndsInDone ==
    (pc = "returned" /\ EndsWithAnswer) =>
        /\ result.success
        /\ result.response = extract_text_from_response(messages[Len(messages)].content)
        /\ result.response # CapResponse(result.tools_used)

\* every model message of the conversation requests at least one tool
AllTurnsRequestTools ==
    \A j \in ModelMessagesAt(messages) : Len(messages[j].tool_calls) >= 1

\* the text says that the cap of 8 was hit and lists the names in order
StatesCapAndLists(text, names) ==
    /\ Len(text) = 2 * Len(names) + 3
    /\ text[1] = "I apologize, but I reached the maximum number of reasoning steps ("
    /\ text[2] = "8"
    /\ \A k \in 1..Len(names) : text[2 * k + 2] = names[k]

\* C5: when the model requests a tool on every response, the run ends after
\* exactly 8 model invocations with success = true, iterations = 8 and a
\* response that states the cap (8) and lists every tool name in call order.
C5_CapExhaustion ==
    (pc = "returned" /\ exception = None /\ AllTurnsRequestTools) =>
        /\ llm_invocations = 8
        /\ result.success
        /\ result.iterations = 8
        /\ StatesCapAndLists(result.response.text, NamesOf(RequestedCalls(messages)))

\* an exhausted run that dispatched more than one tool in some turn
C5_Witness ==
    /\ pc = "returned"
    /\ exception = None
    /\ AllTurnsRequestTools
    /\ Len(RequestedCalls(messages)) > 8

\* C6: a run returns success = false exactly when an exception escaped a
\* loop iteration, and then error is the exception message; runs that end in
\* DONE or EXHAUSTED return success = true and error = None.
C6_FailureIffException ==
    pc = "returned" =>
        /\ (result.success = FALSE) <=> (exception # None)
        /\ exception # None => result.error = exception
        /\ exception = None => (result.success /\ result.error = None)

\* the model threw on a later iteration and the run returned the failure
C6_Witness ==
    /\ pc = "returned"
    /\ exception = JStr("model unavailable")
    /\ result.success = FALSE
    /\ result.iterations >= 2

\* C7: at the return of every run, failed runs included, the length of
\* tools_used equals the number of tool observations in the conversation.
C7_ToolsUsedCountsObservations ==
    pc = "returned" =>
        Len(result.tools_used) = Cardinality(ObservationsAt(messages))

\* a failed run that had used several tools
C7_Witness ==
    /\ pc = "returned"
    /\ result.success = FALSE
    /\ Len(result.tools_used) >= 3

RECURSIVE ObservedUpTo(_, _)
\* the call ids of the tool observations among the first n messages, in order
ObservedUpTo(msgs, n) ==
    IF n = 0 THEN <<>>
    ELSE ObservedUpTo(msgs, n - 1)
         \o (IF msgs[n].type = "tool" THEN <<msgs[n].tool_call_id>> ELSE <<>>)

\* the call ids of the tool observations of a conversation, in order
ObservedIds(msgs) == ObservedUpTo(msgs, Len(msgs))

\* C8: the invocations are dispatched one at a time in the order the model
\* issued them, each observation is appended before the next invocation is
\* dispatched, and tools_used lists the names in dispatch order, duplicates kept.
C8_DispatchInOrder ==
    LET calls == RequestedCalls(messages)
        observed == ObservedIds(messages)
    IN /\ Len(dispatched) <= Len(calls)
       /\ \A k \in 1..Len(dispatched) : dispatched[k] = calls[k].id
       /\ observed = IF pc = "observe"
                     THEN SubSeq(dispatched, 1, Len(dispatched) - 1)
                     ELSE dispatched
       /\ tool_calls_made = [k \in 1..Len(dispatched) |-> calls[k].name]
       /\ pc = "returned" => result.tools_used = tool_calls_made

\* the second invocation of a turn has been dispatched and a name is used twice
C8_Witness ==
    /\ pc = "observe"
    /\ tool_idx = 2
    /\ \E i, j \in 1..Len(tool_calls_made) : i < j /\ tool_calls_made[i] = tool_calls_made[j]

\* the requested invocation with a call id
CallWithId(calls, id) == calls[CHOOSE k \in 1..Len(calls) : calls[k].id = id]

IsUnknownTool(name) ==
    name \notin {"get_collection_schema", "translate_query", "execute_mongodb_query",
                 "search_web"}

\* the last message of the conversation is the observation of an unknown tool
LastObservesUnknown(calls) ==
    /\ Len(messages) > 0
    /\ messages[Len(messages)].type = "tool"
    /\ IsUnknownTool(CallWithId(calls, messages[Len(messages)].tool_call_id).name)

\* C9: an invocation that names none of the four tools yields the observation
\* "Unknown Tool" for its call id, raises nothing, is recorded in tools_used,
\* and the loop goes on to the next invocation or the next model turn.
C9_UnknownTool ==
    LET calls == RequestedCalls(messages) IN
    /\ \A j \in ObservationsAt(messages) :
           IsUnknownTool(CallWithId(calls, messages[j].tool_call_id).name)
               => messages[j].content = Str(<<"Unknown Tool">>)
    /\ (pc = "observe" /\ IsUnknownTool(ai_msg.tool_calls[tool_idx].name)) =>
           /\ exception = None
           /\ tool_output = Str(<<"Unknown Tool">>)
           /\ tool_calls_made[Len(tool_calls_made)] = ai_msg.tool_calls[tool_idx].name
    /\ LastObservesUnknown(calls) =>
           LET id == messages[Len(messages)].tool_call_id IN
           /\ \E k \in 1..Len(dispatched) :
                  dispatched[k] = id /\ tool_calls_made[k] = CallWithId(calls, id).name
           /\ \/ /\ pc \in {"act", "observe"}
                 /\ exception = None
                 /\ ai_msg.tool_calls[tool_idx - 1].id = id
              \/ /\ pc = "loop"
                 /\ exception = None
                 /\ ai_msg.tool_calls[Len(ai_msg.tool_calls)].id = id
              \/ /\ pc = "returned"
                 /\ \/ llm_invocations = Cardinality(ModelMessagesAt(messages)) + 1
                    \/ result.success /\ result.iterations = max_iterations

\* an unknown tool was observed in the middle of a turn and the next one is up
C9_Witness ==
    /\ pc = "act"
    /\ messages[Len(messages)].type = "tool"
    /\ messages[Len(messages)].content = Str(<<"Unknown Tool">>)
    /\ tool_calls_made[Len(tool_calls_made)] = "format_response"

\* the response is an aggregate query whose pipeline is a list
IsAggregateResponse(r) ==
    /\ "throws" \in DOMAIN r
    /\ ~r.throws
    /\ "json" \in DOMAIN r.body
    /\ IsDict(r.body.json)
    /\ HasKey(r.body.json, "query_type")
    /\ r.body.json.m["query_type"] = JStr("aggregate")
    /\ HasKey(r.body.json, "query")
    /\ IsDict(r.body.json.m["query"])
    /\ HasKey(r.body.json.m["query"], "pipeline")
    /\ IsList(r.body.json.m["query"].m["pipeline"])

PipelineOf(r) == r.body.json.m["query"].m["pipeline"].items

\* stage i of the pipeline is a mapping with the key $out or $merge
DestructiveAt(pipeline, i) ==
    /\ IsDict(pipeline[i])
    /\ {"$out", "$merge"} \cap DOMAIN pipeline[i].m # {}

\* C10: validation rejects every aggregate query whose pipeline has a stage
\* of a destructive kind ($out or $merge), at any position and whatever the
\* other stages are; translate then raises instead of returning the query.
C10_DestructiveStageRejected ==
    (tr_outcome # None /\ IsAggregateResponse(tr_response)
     /\ \E i \in 1..Len(PipelineOf(tr_response)) : DestructiveAt(PipelineOf(tr_response), i)) =>
        /\ tr_outcome.kind = "raised"
        /\ tr_outcome.error = "Generated query failed validation"

\* translate raised for a pipeline whose destructive stage follows a harmless one
C10_Witness ==
    /\ tr_outcome # None
    /\ IsAggregateResponse(tr_response)
    /\ Len(PipelineOf(tr_response)) = 2
    /\ ~DestructiveAt(PipelineOf(tr_response), 1)
    /\ IsDict(PipelineOf(tr_response)[1])
    /\ DestructiveAt(PipelineOf(tr_response), 2)
    /\ tr_outcome.kind = "raised"

(***************************************************************************)
(* C11: no pipeline with a destructive stage ($out or $merge) is ever      *)
(* passed to the store's aggregate operation, whatever tool invocations    *)
(* the model issues.                                                       *)
(***************************************************************************)
C11_NoDestructiveAggregate ==
    \A i \in 1..Len(store_calls) :
        store_calls[i].op = "aggregate" =>
            (IsList(store_calls[i].pipeline) =>
                \A j \in 1..Len(store_calls[i].pipeline.items) :
                    IsDict(store_calls[i].pipeline.items[j]) =>
                        ~StageIsDestructive(store_calls[i].pipeline.items[j]))

(***************************************************************************)
(* C12, C13: the limit of a find query                                     *)
(***************************************************************************)
\* the translator's model answered with a find query that is a mapping
IsFindResponse(r) ==
    /\ ~r.throws
    /\ "json" \in DOMAIN r.body
    /\ IsDict(r.body.json)
    /\ HasKey(r.body.json, "query_type")
    /\ HasKey(r.body.json, "query")
    /\ r.body.json.m["query_type"] = JStr("find")
    /\ IsDict(r.body.json.m["query"])

\* the find query as the model gave it
GivenQuery(r) == r.body.json.m["query"]

\* C12: a find query with a filter mapping and no limit field has
\* limit = MAX_QUERY_RESULTS once validate_query has accepted it, and a find
\* query that carries a limit keeps that limit; nothing else of it changes.
C12_LimitDefaulting ==
    (tr_outcome # None /\ tr_outcome.kind = "returned" /\ IsFindResponse(tr_response)) =>
        LET given == GivenQuery(tr_response)
            accepted == tr_outcome.value.m["query"]
        IN /\ IsDict(given.m["filter"])
           /\ DOMAIN accepted.m = DOMAIN given.m \cup {"limit"}
           /\ \A k \in DOMAIN given.m : accepted.m[k] = given.m[k]
           /\ ~HasKey(given, "limit") => accepted.m["limit"] = JInt(MAX_QUERY_RESULTS)

\* translate returned a find query that came without a limit, now limited to the default
C12_Witness ==
    /\ tr_outcome # None
    /\ tr_outcome.kind = "returned"
    /\ IsFindResponse(tr_response)
    /\ ~HasKey(GivenQuery(tr_response), "limit")
    /\ tr_outcome.value.m["query"].m["limit"] = JInt(MAX_QUERY_RESULTS)

\* C13: every find query the translator returns has a limit that is an
\* integer no greater than MAX_QUERY_RESULTS.
C13_FindLimitCapped ==
    (tr_outcome # None /\ tr_outcome.kind = "returned" /\ IsFindResponse(tr_response)) =>
        LET limit == tr_outcome.value.m["query"].m["limit"]
        IN limit.t = "int" /\ limit.n <= MAX_QUERY_RESULTS

(***************************************************************************)
(* C14-C19: the Query Executor                                             *)
(***************************************************************************)
\* the argument parses to a mapping with query_type and query
IsQueryData(q) ==
    /\ "json" \in DOMAIN q
    /\ IsDict(q.json)
    /\ HasKey(q.json, "query_type")
    /\ HasKey(q.json, "query")

\* the argument is an aggregate query given as a bare sequence of stages
IsBareAggregate(q) ==
    /\ IsQueryData(q)
    /\ q.json.m["query_type"] = JStr("aggregate")
    /\ IsList(q.json.m["query"])

\* the argument is an aggregate query whose pipeline, if any, is a sequence
IsAggregateArgument(q) ==
    \/ IsBareAggregate(q)
    \/ /\ IsQueryData(q)
       /\ q.json.m["query_type"] = JStr("aggregate")
       /\ IsDict(q.json.m["query"])
       /\ HasKey(q.json.m["query"], "pipeline") => IsList(q.json.m["query"].m["pipeline"])

\* the stages the argument gives
GivenPipeline(q) ==
    LET query == q.json.m["query"] IN
    IF IsList(query) THEN query.items
    ELSE IF HasKey(query, "pipeline") THEN query.m["pipeline"].items
    ELSE <<>>

IsLimitStage(stage) == IsDict(stage) /\ HasKey(stage, "$limit")

IsCountStage(stage) == IsDict(stage) /\ HasKey(stage, "$count")

\* some stage caps or counts the records
IsCapped(pipeline) ==
    \E i \in 1..Len(pipeline) : IsLimitStage(pipeline[i]) \/ IsCountStage(pipeline[i])

ExecSucceeded(outcome) ==
    /\ outcome.raised = None
    /\ outcome.output.json.m["success"] = JBool(TRUE)

\* C14: for an aggregate query the executor passes to the store the given
\* pipeline with {$limit: MAX_QUERY_RESULTS} appended exactly when no stage
\* is a $limit stage and none is a $count stage, and the given pipeline
\* unchanged otherwise; with the default limit appended a successful result
\* has count <= MAX_QUERY_RESULTS.
C14_DefaultLimit ==
    (ex_outcome # None /\ IsAggregateArgument(ex_query_json) /\ ex_store.connected) =>
        LET given == GivenPipeline(ex_query_json)
            expected == IF IsCapped(given) THEN given
                        ELSE Append(given, JDict("$limit" :> JInt(MAX_QUERY_RESULTS)))
        IN /\ Len(ex_outcome.calls) = 1
           /\ ex_outcome.calls[1].op = "aggregate"
           /\ ex_outcome.calls[1].pipeline = JList(expected)
           /\ (~IsCapped(given) /\ ExecSucceeded(ex_outcome)) =>
                  /\ ex_outcome.output.json.m["count"].n <= MAX_QUERY_RESULTS
                  /\ Len(ex_outcome.output.json.m["results"].items) <= MAX_QUERY_RESULTS

\* a pipeline without $limit and $count ran against a store that holds more
\* than MAX_QUERY_RESULTS records and gave exactly MAX_QUERY_RESULTS of them
C14_Witness ==
    /\ ex_outcome # None
    /\ IsAggregateArgument(ex_query_json)
    /\ Len(GivenPipeline(ex_query_json)) > 0
    /\ ~IsCapped(GivenPipeline(ex_query_json))
    /\ Len(ex_store.docs) > MAX_QUERY_RESULTS
    /\ ExecSucceeded(ex_outcome)
    /\ ex_outcome.output.json.m["count"] = JInt(MAX_QUERY_RESULTS)

\* the query kind is neither find nor aggregate
IsUnsupportedKind(q) ==
    IsQueryData(q) /\ q.json.m["query_type"] \notin {JStr("find"), JStr("aggregate")}

\* the argument is not JSON, its top-level value is not an object, query_type
\* or query is missing, the query is not an object (nor, for aggregate, a
\* sequence) or the pipeline is not a sequence
IsMalformedShape(q) ==
    \/ ~IsQueryData(q)
    \/ /\ ~IsDict(q.json.m["query"])
       /\ ~IsBareAggregate(q)
    \/ /\ q.json.m["query_type"] = JStr("aggregate")
       /\ IsDict(q.json.m["query"])
       /\ HasKey(q.json.m["query"], "pipeline")
       /\ ~IsList(q.json.m["query"].m["pipeline"])

\* {success: false, error: string, results: [], count: 0}
IsErrorResult(output) ==
    /\ "json" \in DOMAIN output
    /\ IsDict(output.json)
    /\ DOMAIN output.json.m = {"success", "error", "results", "count"}
    /\ output.json.m["success"] = JBool(FALSE)
    /\ output.json.m["error"].t = "str"
    /\ output.json.m["results"] = JList(<<>>)
    /\ output.json.m["count"] = JInt(0)

\* C15: the executor never raises; for an unsupported query kind, a malformed
\* query shape and a store failure it returns success = false with an error
\* string, an empty record list and count = 0.
C15_NeverRaises ==
    ex_outcome # None =>
        /\ ex_outcome.raised = None
        /\ "json" \in DOMAIN ex_outcome.output
        /\ (\/ IsUnsupportedKind(ex_query_json)
            \/ IsMalformedShape(ex_query_json)
            \/ ~ex_store.connected
            \/ ex_store.fails) => IsErrorResult(ex_outcome.output)

\* a find query of the right shape reached a store that failed
C15_Witness ==
    /\ ex_outcome # None
    /\ IsQueryData(ex_query_json)
    /\ ~IsMalformedShape(ex_query_json)
    /\ ex_query_json.json.m["query_type"] = JStr("find")
    /\ ex_store.connected
    /\ ex_store.fails
    /\ Len(ex_outcome.calls) = 1
    /\ IsErrorResult(ex_outcome.output)

\* the aggregate argument q with its bare sequence put under the key pipeline
WrappedForm(q) ==
    Dumps(JDict([q.json.m EXCEPT !["query"] = JDict("pipeline" :> q.json.m["query"])]))

\* C16: an aggregate invocation whose query is a bare sequence of stages is
\* executed with that sequence as the pipeline and gives the same result as
\* the invocation with {pipeline: sequence}; it is not refused for its shape.
C16_BareSequenceWrapped ==
    (ex_outcome # None /\ IsBareAggregate(ex_query_json)) =>
        LET wrapped == tool_execute_query(ex_store, WrappedForm(ex_query_json)) IN
        /\ ex_outcome.output = wrapped.output
        /\ ex_outcome.calls = wrapped.calls
        /\ ex_outcome.output.json.m["success"] = JBool(FALSE) =>
               ex_outcome.output.json.m["error"] # JStr("Invalid query structure")
        /\ ex_store.connected =>
               /\ Len(ex_outcome.calls) = 1
               /\ ex_outcome.calls[1].op = "aggregate"
               /\ ex_outcome.calls[1].pipeline =
                      JList(WithDefaultLimit(ex_query_json.json.m["query"].items))

\* a bare sequence of one stage ran against a store with records and succeeded
C16_Witness ==
    /\ ex_outcome # None
    /\ IsBareAggregate(ex_query_json)
    /\ Len(ex_query_json.json.m["query"].items) = 1
    /\ ex_store.docs = StoreDocs
    /\ Len(ex_outcome.calls) = 1
    /\ ExecSucceeded(ex_outcome)
    /\ ex_outcome.output.json.m["count"] = JInt(Len(StoreDocs))

RECURSIVE AsText(_)
\* the value with every identifier and every date in it, at any depth,
\* replaced by its string
AsText(v) ==
    IF v.t \in {"oid", "date"} THEN JStr(v.s)
    ELSE IF v.t = "dict" THEN JDict([k \in DOMAIN v.m |-> AsText(v.m[k])])
    ELSE IF v.t = "list" THEN JList([i \in 1..Len(v.items) |-> AsText(v.items[i])])
    ELSE v

\* C17: for every record set the store returns, the executor's result is
\* successful and holds every identifier and every date of the records, at
\* any nesting depth, as a string; no native value is in the output.
C17_NativeValuesBecomeStrings ==
    (ex_outcome # None /\ ex_outcome.results # None) =>
        /\ ExecSucceeded(ex_outcome)
        /\ ex_outcome.output.json.m["results"] = AsText(ex_outcome.results)

\* C18: normalisation is idempotent: normalising a normalised record set
\* gives the same record set again.
C18_NormalizeIdempotent ==
    \A i \in 3..Len(sr_trace) : sr_trace[i] = sr_trace[2]

\* a record set with an identifier or a date at the top of a record was
\* normalised twice; the first pass changed it
C18_Witness ==
    /\ Len(sr_trace) >= 3
    /\ \E i \in 1..Len(sr_trace[1]) : \E k \in DOMAIN sr_trace[1][i].m :
           sr_trace[1][i].m[k].t \in {"oid", "date"}
    /\ sr_trace[2] # sr_trace[1]
    /\ sr_trace[3] = sr_trace[2]

\* C19: normalisation drops nothing: as many records in the same order, each
\* with the key set of its input record (_id included), every value that is
\* neither an identifier nor a date unchanged; the successful result holds
\* these records and its count is their number.
C19_NormalizationDropsNothing ==
    (ex_outcome # None /\ ex_outcome.results # None) =>
        LET R == ex_outcome.results.items
            N == serialize_results(R)
        IN /\ Len(N) = Len(R)
           /\ \A i \in 1..Len(R) :
                  /\ DOMAIN N[i].m = DOMAIN R[i].m
                  /\ \A k \in DOMAIN R[i].m :
                         R[i].m[k].t \notin {"oid", "date"} => N[i].m[k] = R[i].m[k]
           /\ ExecSucceeded(ex_outcome) =>
                  /\ ex_outcome.output.json.m["results"] = JList(N)
                  /\ ex_outcome.output.json.m["count"] = JInt(Len(R))

\* records with an ObjectId under _id, a date and a plain value came back
\* from the store and the result is successful
C19_Witness ==
    /\ ex_outcome # None
    /\ ex_outcome.results = JList(NativeDocs)
    /\ ExecSucceeded(ex_outcome)
    /\ "_id" \in DOMAIN ex_outcome.output.json.m["results"].items[1].m
    /\ ex_outcome.output.json.m["results"].items[1].m["total_price"] = JInt(99)
    /\ ex_outcome.output.json.m["count"] = JInt(Len(NativeDocs))

(***************************************************************************)
(* C20: the session history                                                *)
(***************************************************************************)
\* _add_to_history ran on a history of HistoryLimit entries
AddedToFullHistory ==
    /\ Len(conversation_history) = HistoryLimit
    /\ clock' = clock + 1

\* C20: after any sequence of process_query and clear_history calls the
\* history holds at most 10 entries; when an entry is added to a history of
\* 10, the oldest entry is removed, the others keep their order and the new
\* entry is the last.
C20_HistoryBounded ==
    /\ [](Len(conversation_history) <= HistoryLimit)
    /\ [][AddedToFullHistory =>
            /\ Len(conversation_history') = HistoryLimit
            /\ \A i \in 1..(HistoryLimit - 1) :
                   conversation_history'[i] = conversation_history[i + 1]
            /\ conversation_history'[HistoryLimit].timestamp = clock']_vars

\* the history is full, its newest entry is the eleventh or a later one and
\* its entries are in the order they were added
C20_Witness ==
    /\ Len(conversation_history) = HistoryLimit
    /\ clock > HistoryLimit
    /\ conversation_history[HistoryLimit].timestamp = clock
    /\ conversation_history[1].timestamp = clock - HistoryLimit + 1
    /\ \A i \in 1..(HistoryLimit - 1) :
           conversation_history[i].timestamp < conversation_history[i + 1].timestamp

(***************************************************************************)
(* C21: what the history entry of a run holds                              *)
(***************************************************************************)
\* the fields of a history entry that hold neither question, answer nor time
OtherEntryFields(entry) ==
    DOMAIN entry \ {"timestamp", "question", "response", "results_count"}

\* C21: the history entry written for a run records the run's question, its
\* answer, the names of the tools the run used and a timestamp.
C21_HistoryEntryRecordsRun ==
    (pc = "returned" /\ result.success) =>
        LET entry == conversation_history[Len(conversation_history)] IN
        /\ entry.question = user_question
        /\ entry.response = result.response
        /\ entry.timestamp = clock
        /\ \E f \in OtherEntryFields(entry) : entry[f] = JList(result.tools_used)

(***************************************************************************)
(* C23: token accounting                                                   *)
(***************************************************************************)
\* the input and output tokens a response reports, in the shape it uses
ReportedTokens(md) ==
    IF "token_usage" \in DOMAIN md
    THEN <<md["token_usage"]["prompt_tokens"], md["token_usage"]["completion_tokens"]>>
    ELSE IF "usage_metadata" \in DOMAIN md
    THEN <<md["usage_metadata"]["prompt_token_count"],
           md["usage_metadata"]["candidates_token_count"]>>
    ELSE <<0, 0>>

RECURSIVE SumReported(_, _, _)
\* the sum, over the model responses among the first n messages, of the
\* k-th number each reports
SumReported(msgs, n, k) ==
    IF n = 0 THEN 0
    ELSE SumReported(msgs, n - 1, k)
         + (IF msgs[n].type = "ai" THEN ReportedTokens(msgs[n].response_metadata)[k] ELSE 0)

\* C23: in every returned result, successful or failed, the input token count
\* is the sum of the input tokens the responses of the run report, the output
\* count likewise, whichever shape each response uses, and the total is
\* input plus output.
C23_TokenCountsAreSums ==
    pc = "returned" =>
        /\ result.token_count.input_token_count = SumReported(messages, Len(messages), 1)
        /\ result.token_count.output_token_count = SumReported(messages, Len(messages), 2)
        /\ result.token_count.total_token_count =
               result.token_count.input_token_count + result.token_count.output_token_count

\* a run that failed after a response in each of the two shapes
C23_Witness ==
    /\ pc = "returned"
    /\ result.success = FALSE
    /\ \E i, j \in ModelMessagesAt(messages) :
           /\ "token_usage" \in DOMAIN messages[i].response_metadata
           /\ "usage_metadata" \in DOMAIN messages[j].response_metadata
    /\ result.token_count.input_token_count = 5
    /\ result.token_count.output_token_count = 3
    /\ result.token_count.total_token_count = 8

(***************************************************************************)
(* C24: what translate rejects                                             *)
(***************************************************************************)
\* the response is not parseable JSON, lacks query_type or query, names a
\* kind other than find and aggregate, carries a query that is not an
\* object, or carries an aggregate query with an empty pipeline
MustBeRejected(r) ==
    \/ "json" \notin DOMAIN r.body
    \/ ~IsDict(r.body.json)
    \/ ~HasKey(r.body.json, "query_type")
    \/ ~HasKey(r.body.json, "query")
    \/ r.body.json.m["query_type"] \notin {JStr("find"), JStr("aggregate")}
    \/ ~IsDict(r.body.json.m["query"])
    \/ /\ r.body.json.m["query_type"] = JStr("aggregate")
       /\ HasKey(r.body.json.m["query"], "pipeline")
       /\ r.body.json.m["query"].m["pipeline"] = JList(<<>>)

\* C24: translate raises, instead of returning a query, for every response
\* that is not parseable JSON, lacks query_type or query, names another kind
\* than find and aggregate, has a query that is not an object or an empty
\* aggregate pipeline; every query it returns has query_type find or
\* aggregate and passes validate_query.
C24_TranslateRejects ==
    tr_outcome # None =>
        /\ (~tr_response.throws /\ MustBeRejected(tr_response)) => tr_outcome.kind = "raised"
        /\ tr_outcome.kind = "returned" =>
               /\ tr_outcome.value.m["query_type"] \in {JStr("find"), JStr("aggregate")}
               /\ validate_query(tr_outcome.value.m["query_type"],
                                 tr_outcome.value.m["query"]).ok

\* translate raised for an aggregate query of the right shape whose pipeline is empty
C24_Witness ==
    /\ tr_outcome # None
    /\ IsAggregateResponse(tr_response)
    /\ PipelineOf(tr_response) = <<>>
    /\ tr_outcome.kind = "raised"
    /\ tr_outcome.error = "Generated query failed validation"

(***************************************************************************)
(* C25: a translation error inside the loop                                *)
(***************************************************************************)
\* what translate does for the question a translate_query invocation carries
TranslationOf(call) ==
    translate(TranslatorModel(IF "user_question" \in DOMAIN call.args
                              THEN call.args["user_question"] ELSE Str(<<>>)))

IsFailedTranslation(call) ==
    call.name = "translate_query" /\ TranslationOf(call).kind = "raised"

\* the observation that carries the message of the error translate raised
ErrorObservation(call) == Dumps(JDict("error" :> JStr(TranslationOf(call).error)))

\* the last message of the conversation observes a translation that failed
LastObservesFailedTranslation(calls) ==
    /\ Len(messages) > 0
    /\ messages[Len(messages)].type = "tool"
    /\ IsFailedTranslation(CallWithId(calls, messages[Len(messages)].tool_call_id))

\* C25: when translate raises during a translate_query invocation, the
\* observation appended for that call id carries the error message, no
\* exception reaches the run, and the loop goes on to the next invocation or
\* the next model turn; a run fails only for an error of the agent's model.
C25_TranslationErrorObserved ==
    LET calls == RequestedCalls(messages) IN
    /\ \A j \in ObservationsAt(messages) :
           LET call == CallWithId(calls, messages[j].tool_call_id) IN
           IsFailedTranslation(call) => messages[j].content = ErrorObservation(call)
    /\ (pc = "observe" /\ IsFailedTranslation(ai_msg.tool_calls[tool_idx])) =>
           /\ exception = None
           /\ tool_output = ErrorObservation(ai_msg.tool_calls[tool_idx])
    /\ LastObservesFailedTranslation(calls) =>
           LET id == messages[Len(messages)].tool_call_id IN
           \/ /\ pc \in {"act", "observe"}
              /\ exception = None
              /\ ai_msg.tool_calls[tool_idx - 1].id = id
           \/ /\ pc = "loop"
              /\ exception = None
              /\ ai_msg.tool_calls[Len(ai_msg.tool_calls)].id = id
           \/ /\ pc = "returned"
              /\ \/ llm_invocations = Cardinality(ModelMessagesAt(messages)) + 1
                 \/ result.success /\ result.iterations = max_iterations
    /\ (pc = "returned" /\ ~result.success) => result.error.s \in ModelErrors

\* after a translation that failed the model issued translate_query again
\* and the run returned success
C25_Witness ==
    LET calls == RequestedCalls(messages) IN
    /\ pc = "returned"
    /\ result.success
    /\ \E j, k \in ObservationsAt(messages) :
           /\ j < k
           /\ IsFailedTranslation(CallWithId(calls, messages[j].tool_call_id))
           /\ CallWithId(calls, messages[k].tool_call_id).name = "translate_query"
           /\ messages[j].content = ErrorObservation(CallWithId(calls, messages[j].tool_call_id))


\* C27: every store query the executor issues, find as well as aggregate,
\* carries the server-side execution time budget of QUERY_TIMEOUT_SECONDS.
C27_EveryQueryHasTimeBudget ==
    (ex_outcome # None) =>
        \A k \in 1..Len(ex_outcome.calls) :
            /\ "maxTimeMS" \in DOMAIN ex_outcome.calls[k]
            /\ ex_outcome.calls[k].maxTimeMS = QUERY_TIMEOUT_SECONDS * 1000

\* the digest of the schema tool: the field names between its two headings
FieldsListed(text) ==
    LET last == CHOOSE i \in 1..Len(text) : text[i] = "Sample Document:"
    IN {text[i] : i \in 2..(last - 1)}

\* C30: the schema inspection tool never raises: it returns "Collection is
\* empty." when the store has no sample record, an error text when the store
\* cannot be reached, and otherwise a digest that lists every field name of
\* the sample record except _id.
C30_SchemaToolNeverRaises ==
    (sc_outcome # None) =>
        /\ sc_outcome.raised = None
        /\ sc_outcome.output.kind = "str"
        /\ IF ~ex_store.connected \/ ex_store.fails
           THEN /\ Len(sc_outcome.output.text) = 2
                /\ sc_outcome.output.text[1] = "Error retrieving schema: "
           ELSE IF Len(ex_store.docs) = 0
           THEN sc_outcome.output = Str(<<"Collection is empty.">>)
           ELSE /\ sc_outcome.output.text[1] = "Collection Fields: "
                /\ FieldsListed(sc_outcome.output.text)
                       = DOMAIN ex_store.docs[1].m \ {"_id"}

\* the tool has inspected a reachable store whose sample record is a purchase
C30_Witness ==
    /\ sc_outcome # None
    /\ ex_store.connected
    /\ ~ex_store.fails
    /\ ex_store.docs = NativeDocs
    /\ sc_outcome.raised = None
    /\ "_id" \in DOMAIN ex_store.docs[1].m
    /\ FieldsListed(sc_outcome.output.text) = DOMAIN ex_store.docs[1].m \ {"_id"}
    /\ FieldsListed(sc_outcome.output.text) # {}


(***************************************************************************)
(* C26: a store failure inside the loop                                    *)
(***************************************************************************)
\* the results _tool_execute_query returns when the store fails
StoreFailureResults ==
    {ExecError("store error"), ExecError("Not connected to MongoDB. Call connect() first.")}

\* the argument an execute_mongodb_query invocation carries
QueryJsonOf(call) ==
    IF "query_json" \in DOMAIN call.args THEN call.args["query_json"] ELSE [text |-> ""]

\* the invocation is one a healthy store answers
IsAnswerableQuery(call) ==
    /\ call.name = "execute_mongodb_query"
    /\ ExecSucceeded(tool_execute_query(StoreView(TheStore), QueryJsonOf(call)))

IsSuccessResult(content) ==
    /\ "json" \in DOMAIN content
    /\ IsDict(content.json)
    /\ "success" \in DOMAIN content.json.m
    /\ content.json.m["success"] = JBool(TRUE)

Occurrences(seq, x) == Cardinality({k \in 1..Len(seq) : seq[k] = x})

\* C26: a store failure during execute_mongodb_query becomes a success =
\* false observation and does not end the run; a run in which a later
\* execute succeeds and the model answers returns success = true with the
\* execute tool at least twice in tools_used; a run in which the model never
\* stops calling tools ends exhausted.
C26_StoreFailureObserved ==
    LET calls == RequestedCalls(messages) IN
    /\ (/\ pc = "observe"
        /\ IsAnswerableQuery(ai_msg.tool_calls[tool_idx])
        /\ (~mongo.connected \/ mongo.outage > 0)) =>
           /\ exception = None
           /\ tool_output \in StoreFailureResults
           /\ IsErrorResult(tool_output)
    /\ \A j \in ObservationsAt(messages) :
           CallWithId(calls, messages[j].tool_call_id).name = "execute_mongodb_query" =>
               IsErrorResult(messages[j].content) \/ IsSuccessResult(messages[j].content)
    /\ (/\ Len(messages) > 0
        /\ messages[Len(messages)].type = "tool"
        /\ messages[Len(messages)].content \in StoreFailureResults) =>
           LET id == messages[Len(messages)].tool_call_id IN
           \/ /\ pc \in {"act", "observe"}
              /\ exception = None
              /\ ai_msg.tool_calls[tool_idx - 1].id = id
           \/ /\ pc = "loop"
              /\ exception = None
              /\ ai_msg.tool_calls[Len(ai_msg.tool_calls)].id = id
           \/ /\ pc = "returned"
              /\ \/ llm_invocations = Cardinality(ModelMessagesAt(messages)) + 1
                 \/ result.success /\ result.iterations = max_iterations
    /\ (/\ pc = "returned"
        /\ exception = None
        /\ EndsWithAnswer
        /\ \E j, k \in ObservationsAt(messages) :
               /\ j < k
               /\ messages[j].content \in StoreFailureResults
               /\ IsSuccessResult(messages[k].content)
               /\ CallWithId(calls, messages[k].tool_call_id).name = "execute_mongodb_query") =>
           /\ result.success
           /\ Occurrences(result.tools_used, "execute_mongodb_query") >= 2
    /\ (pc = "returned" /\ exception = None /\ AllTurnsRequestTools) =>
           /\ result.success
           /\ result.iterations = max_iterations
           /\ StatesCapAndLists(result.response.text, NamesOf(calls))
    /\ (pc = "returned" /\ ~result.success) => result.error.s \in ModelErrors

\* the store failed under an execute, a later execute succeeded, the model
\* answered and the run returned
C26_Witness ==
    LET calls == RequestedCalls(messages) IN
    /\ pc = "returned"
    /\ result.success
    /\ EndsWithAnswer
    /\ llm_invocations < max_iterations
    /\ \E j, k \in ObservationsAt(messages) :
           /\ j < k
           /\ messages[j].content = ExecError("store error")
           /\ CallWithId(calls, messages[j].tool_call_id).name = "execute_mongodb_query"
           /\ IsSuccessResult(messages[k].content)
           /\ CallWithId(calls, messages[k].tool_call_id).name = "execute_mongodb_query"
    /\ Occurrences(result.tools_used, "execute_mongodb_query") >= 2


(***************************************************************************)
(* C22: the conversation of a run is fresh                                 *)
(***************************************************************************)
\* what a run returns, from its own conversation and the error of its model
RunOutcome(msgs, q, thrown) ==
    LET calls == RequestedCalls(msgs)
        observed == Cardinality(ObservationsAt(msgs))
        turns == Cardinality(ModelMessagesAt(msgs))
        names == [k \in 1..observed |-> calls[k].name]
    IN IF thrown # None
       THEN [response |-> get_error_response(q, thrown.s), iterations |-> turns + 1,
             tools_used |-> names]
       ELSE IF turns >= max_iterations
       THEN [response |-> CapResponse(names), iterations |-> turns, tools_used |-> names]
       ELSE [response |-> extract_text_from_response(msgs[Len(msgs)].content),
             iterations |-> turns, tools_used |-> names]

\* C22: whatever queries the agent processed before, the first model
\* invocation of a run receives exactly the system instruction and the user
\* question, and the response, iterations and tools_used the run returns are
\* determined by the question, the model responses and the tool results of
\* the run alone.
C22_FreshConversation ==
    /\ (pc = "loop" /\ llm_invocations = 0) =>
           messages = <<SystemMessage(system_prompt), HumanMessage(user_question)>>
    /\ (pc # "idle") =>
           /\ Len(messages) >= 2
           /\ messages[1] = SystemMessage(system_prompt)
           /\ messages[2] = HumanMessage(user_question)
           /\ \A j \in 3..Len(messages) : messages[j].type \in {"ai", "tool"}
    /\ (pc = "returned") =>
           LET outcome == RunOutcome(messages, user_question, exception) IN
           /\ result.response = outcome.response
           /\ result.iterations = outcome.iterations
           /\ result.tools_used = outcome.tools_used

\* an agent whose history is full has returned from a further run that used tools
C22_Witness ==
    /\ pc = "returned"
    /\ result.success
    /\ Len(result.tools_used) >= 2
    /\ Len(conversation_history) = HistoryLimit
    /\ conversation_history[1].question = Str(<<"earlier question">>)
    /\ conversation_history[HistoryLimit].question = user_question
    /\ messages[2] = HumanMessage(user_question)


(***************************************************************************)
(* C28: overlapping calls of process_query                                 *)
(***************************************************************************)
\* the history after the calls of threads a and b, one after the other
SequentialHistory(a, b) ==
    add_to_history(
        add_to_history(threads.before, threads.start + 1,
                       threads.calls[a].question, threads.calls[a].response),
        threads.start + 2, threads.calls[b].question, threads.calls[b].response)

\* C28: two overlapping calls of process_query share no mutable state other
\* than the store connection, so that whatever the interleaving of their
\* steps the agent state they leave is the one some sequential execution of
\* the two calls leaves.
C28_OverlappingCallsSerializable ==
    (threads # None /\ \A t \in Threads : threads.calls[t].at = "done") =>
        \E a, b \in Threads :
            /\ a # b
            /\ conversation_history = SequentialHistory(a, b)


\* C29: when every model invocation and every tool call returns, every call
\* of process_query eventually returns.
C29_EveryCallReturns == (pc \in {"loop", "act", "observe", "after"}) ~> (pc = "returned")

\* a call that went through all 8 iterations and tool batches has returned
C29_Witness ==
    /\ pc = "returned"
    /\ result.success
    /\ result.iterations = max_iterations
    /\ Len(result.tools_used) > max_iterations


(***************************************************************************)
(* C31: web search of an agent built without it                            *)
(***************************************************************************)
\* C31: when the agent is built with enable_web_search = false, no run sends
\* a query to the search provider, whatever invocations the model issues.
C31_NoSearchWhenDisabled == (~enable_web_search) => web_searches = <<>>


(***************************************************************************)
(* C32: the invocations of the 8th response                                *)
(***************************************************************************)
\* the position of the last model message of a conversation
LastModelMessage(msgs) ==
    CHOOSE j \in ModelMessagesAt(msgs) : \A k \in ModelMessagesAt(msgs) : k <= j

\* C32: in a run that ends exhausted the invocations the 8th model response
\* requests are dispatched, their observations are appended after it, and
\* their names are in tools_used and in the cap response; no model message
\* follows those observations.
C32_LastTurnStillDispatched ==
    (pc = "returned" /\ exception = None /\ AllTurnsRequestTools) =>
        LET calls == RequestedCalls(messages)
            last == LastModelMessage(messages)
            requested == messages[last].tool_calls
        IN /\ Cardinality(ModelMessagesAt(messages)) = max_iterations
           /\ llm_invocations = max_iterations
           /\ Len(messages) = last + Len(requested)
           /\ \A k \in 1..Len(requested) :
                  /\ messages[last + k].type = "tool"
                  /\ messages[last + k].tool_call_id = requested[k].id
                  /\ \E d \in 1..Len(dispatched) : dispatched[d] = requested[k].id
                  /\ result.tools_used[Len(result.tools_used) - Len(requested) + k]
                         = requested[k].name
           /\ Len(result.tools_used) = Len(calls)
           /\ StatesCapAndLists(result.response.text, result.tools_used)

\* an exhausted run whose 8th response requested two invocations
C32_Witness ==
    /\ pc = "returned"
    /\ exception = None
    /\ AllTurnsRequestTools
    /\ Len(messages[LastModelMessage(messages)].tool_calls) = 2
    /\ messages[Len(messages)].type = "tool"
    /\ result.tools_used[Len(result.tools_used)]
           = messages[LastModelMessage(messages)].tool_calls[2].name


(***************************************************************************)
(* C33: the iterations a run reports                                       *)
(***************************************************************************)
\* the positions of the model messages that request tool invocations
ToolTurnsAt(msgs) == {j \in ModelMessagesAt(msgs) : Len(msgs[j].tool_calls) >= 1}

\* C33: the iterations a run returns is the number of model invocations it
\* started, one that throws included; a run whose first k responses request
\* tools (0 <= k <= 7) and whose next response answers returns k + 1.
C33_IterationsCountInvocations ==
    (pc = "returned") =>
        /\ result.iterations = llm_invocations
        /\ (exception # None) =>
               result.iterations = Cardinality(ModelMessagesAt(messages)) + 1
        /\ (exception = None) =>
               result.iterations = Cardinality(ModelMessagesAt(messages))
        /\ (exception = None /\ EndsWithAnswer) =>
               /\ Cardinality(ToolTurnsAt(messages)) <= max_iterations - 1
               /\ result.iterations = Cardinality(ToolTurnsAt(messages)) + 1

\* a turn with translate_query, a turn with execute_mongodb_query and an
\* answer: three iterations
C33_Witness ==
    /\ pc = "returned"
    /\ result.success
    /\ EndsWithAnswer
    /\ Cardinality(ToolTurnsAt(messages)) = 2
    /\ result.iterations = 3
    /\ \E k \in 1..Len(messages[3].tool_calls) :
           messages[3].tool_calls[k].name = "translate_query"
    /\ result.tools_used[Len(result.tools_used)] = "execute_mongodb_query"


(***************************************************************************)
(* C34: the shape of the conversation                                      *)
(***************************************************************************)
\* the position of the last model message before position j
RequesterOf(msgs, j) ==
    CHOOSE a \in 1..(j - 1) :
        /\ msgs[a].type = "ai"
        /\ \A b \in (a + 1)..(j - 1) : msgs[b].type # "ai"

\* system instruction, user question, then model messages and observations,
\* each observation behind the model message that requested its call id, in
\* the order of that message's list
WellFormedConversation(msgs, q) ==
    /\ Len(msgs) >= 2
    /\ msgs[1] = SystemMessage(system_prompt)
    /\ msgs[2] = HumanMessage(q)
    /\ \A j \in 3..Len(msgs) : msgs[j].type \in {"ai", "tool"}
    /\ Len(msgs) >= 3 => msgs[3].type = "ai"
    /\ \A j \in 3..Len(msgs) :
           msgs[j].type = "tool" =>
               LET a == RequesterOf(msgs, j) IN
               /\ j - a <= Len(msgs[a].tool_calls)
               /\ msgs[j].tool_call_id = msgs[a].tool_calls[j - a].id

\* msgs is old with one message appended, or old itself
GrowsByAppending(old, msgs) ==
    \/ msgs = old
    \/ /\ Len(msgs) = Len(old) + 1
       /\ \A j \in 1..Len(old) : msgs[j] = old[j]

\* C34: during a run the conversation only grows by appending; its first two
\* turns are the system instruction and the user question, every later turn
\* is a model message or a tool observation, and each observation follows
\* the model message that requested its call id, in the order of its list.
C34_ConversationGrowsInOrder ==
    [][(pc # "idle") =>
           /\ GrowsByAppending(messages, messages')
           /\ WellFormedConversation(messages, user_question)
           /\ WellFormedConversation(messages', user_question')]_vars

\* a conversation in which a response with two invocations was observed in
\* order and the model was invoked again
C34_Witness ==
    /\ pc = "act"
    /\ Len(messages) >= 6
    /\ messages[3].type = "ai"
    /\ Len(messages[3].tool_calls) = 2
    /\ messages[4].type = "tool"
    /\ messages[4].tool_call_id = messages[3].tool_calls[1].id
    /\ messages[5].type = "tool"
    /\ messages[5].tool_call_id = messages[3].tool_calls[2].id
    /\ messages[6].type = "ai"


(***************************************************************************)
(* C35: arguments the executor refuses                                     *)
(***************************************************************************)
\* the argument fails a shape check of the executor: its top-level value is a
\* list, query_type is missing, or the query is neither a mapping nor a bare
\* pipeline of an aggregate
FailsShapeCheck(q) ==
    /\ "json" \in DOMAIN q
    /\ \/ IsList(q.json)
       \/ IsDict(q.json) /\ ~HasKey(q.json, "query_type")
       \/ IsQueryData(q) /\ ~IsDict(q.json.m["query"]) /\ ~IsBareAggregate(q)

\* C35: when the executor is called with arguments that fail its shape
\* checks or with an unsupported query_type, no find or aggregate operation
\* is issued to the store.
C35_RefusedQueryIssuesNothing ==
    (ex_outcome # None /\ (FailsShapeCheck(ex_query_json) \/ IsUnsupportedKind(ex_query_json))) =>
        /\ ex_outcome.calls = <<>>
        /\ ex_outcome.results = None
        /\ IsErrorResult(ex_outcome.output)

\* a find whose query is not a mapping was refused by a store that answers
C35_Witness ==
    /\ ex_outcome # None
    /\ ex_store.connected
    /\ ~ex_store.fails
    /\ IsQueryData(ex_query_json)
    /\ ex_query_json.json.m["query_type"] = JStr("find")
    /\ ~IsDict(ex_query_json.json.m["query"])
    /\ ex_outcome.calls = <<>>
    /\ ex_outcome.output = ExecError("Invalid query structure")


(***************************************************************************)
(* C36: the session history across one run                                 *)
(***************************************************************************)
\* history is before with exactly one entry added at its end, the oldest
\* entries leaving when the limit is passed
OneEntryAdded(before, history, entry) ==
    LET kept == Len(history) - 1 IN
    /\ Len(history) = Min(Len(before) + 1, HistoryLimit)
    /\ history[Len(history)] = entry
    /\ \A k \in 1..kept : history[k] = before[Len(before) - kept + k]

\* C36: a run that returns success = false leaves the session history as it
\* was before the call; a run that returns success = true adds exactly one
\* entry, that of the run; until the run returns the history is not touched.
C36_HistoryChangesOnSuccessOnly ==
    /\ (pc \in {"loop", "act", "observe", "after"}) =>
           conversation_history = PriorHistory(clock)
    /\ (pc = "returned" /\ ~result.success) =>
           conversation_history = PriorHistory(clock)
    /\ (pc = "returned" /\ result.success) =>
           OneEntryAdded(PriorHistory(clock - 1), conversation_history,
                         HistoryEntry(clock, user_question, result.response))

\* an agent with a full history has returned from a failed run that had used
\* tools
C36_Witness ==
    /\ pc = "returned"
    /\ ~result.success
    /\ Len(result.tools_used) >= 2
    /\ Len(conversation_history) = HistoryLimit
    /\ conversation_history = PriorHistory(HistoryLimit + 1)


(***************************************************************************)
(* C37: what one translate call does                                       *)
(***************************************************************************)
\* C37: one translate call invokes the language model exactly once, also when
\* the response is unparseable or invalid or the invocation throws, and issues
\* no operation to the document store.
C37_TranslateInvokesModelOnce ==
    /\ tr_invocations = (IF tr_outcome = None THEN 0 ELSE 1)
    /\ store_calls = <<>>
    /\ mongo = TheStore
    /\ (tr_outcome # None) => tr_outcome = translate(tr_response)

\* translate has refused a response that is not JSON, after one invocation
C37_Witness ==
    /\ tr_outcome # None
    /\ tr_outcome.kind = "raised"
    /\ ~tr_response.throws
    /\ "text" \in DOMAIN tr_response.body
    /\ tr_invocations = 1


(***************************************************************************)
(* C38: when the collection property returns a collection                  *)
(***************************************************************************)
\* the most recent connect call returned True and no disconnect followed it
ConnectedLast(calls) ==
    /\ Len(calls) > 0
    /\ calls[Len(calls)] = [call |-> "connect", returned |-> TRUE]

\* C38: after any sequence of connect and disconnect calls the collection
\* property returns a collection only if the most recent connect call returned
\* True and no disconnect followed it, and raises RuntimeError in every other
\* state.
C38_CollectionOnlyWhenConnected ==
    (client.read # None) =>
        /\ (client.read.kind = "returned") => ConnectedLast(client.calls)
        /\ (~ConnectedLast(client.calls)) => client.read = Raised("RuntimeError")


(***************************************************************************)
(* C39: the log records of one answer                                      *)
(***************************************************************************)
\* the feedback values of the log rows that belong to the answer shown at
\* message_idx, in log order
FeedbackLogged(c, message_idx) ==
    LET mine(row) == /\ row.response = c.messages[message_idx].content
                     /\ row.user_query = UserQueryBefore(c.messages, message_idx)
        rows == SelectSeq(c.log, mine)
    IN [i \in 1..Len(rows) |-> rows[i].user_feedback]

\* the feedback the page holds for the answer, NA until a button is pressed
CurrentFeedback(c, message_idx) ==
    IF message_idx \in DOMAIN c.message_feedback
    THEN c.message_feedback[message_idx] ELSE "NA"

\* C39: with logging enabled the log holds exactly one record for every
\* answer: the NA record written right after the answer, overwritten by the
\* upvote or downvote the user gave later.
C39_OneRecordPerAnswer ==
    chat.enabled =>
        \A message_idx \in 1..Len(chat.messages) :
            (/\ chat.messages[message_idx].role = "assistant"
             /\ chat.messages[message_idx].query_data.success) =>
                FeedbackLogged(chat, message_idx)
                    = <<CurrentFeedback(chat, message_idx)>>

====
